---- MODULE Spec2Model ----
(***************************************************************************)
(* Model of the geopolrisk-py assessment core: the identifier resolver     *)
(* (utils.cvtcountry), the production lookup (utils.getProd), the HHI      *)
(* engine (core.HHI), its memoization wrapper (core.cached_HHI) and the    *)
(* region registry (utils.regions, Database.define_default_regions).       *)
(*                                                                         *)
(* Abstractions, all stated here once:                                     *)
(*  - a Python value is a record [k, s, n]: k is its type ("str", "int",   *)
(*    "tuple", "list", "none"), s its text and n its integer value;        *)
(*  - production quantities are integers (None/NaN is the value Null), so  *)
(*    a float is an exact fraction <<numerator, denominator>> in lowest    *)
(*    terms (two floats are equal iff the fractions are);                  *)
(*  - a production table carries one unit tag (the code reads the unit of  *)
(*    the first row) and each producer country has at most one row;        *)
(*  - the ISO column of Country_ISO holds integers, the "HS Code" column   *)
(*    of "HS Code Map" holds strings (utils.py:57, utils.py:483).          *)
(***************************************************************************)
EXTENDS Integers, Sequences, FiniteSets, TLC

VARIABLES db, cache, ncalls, last

vars == <<db, cache, ncalls, last>>

(***************************************************************************)
(* Bounds of the model.                                                    *)
(***************************************************************************)
\* largest number of producer rows of the drawn production table
MaxRows == 2
\* largest production quantity of a row
MaxQty == 2
\* largest number of invocations of the wrapped function counted for one key
MaxInvocations == 2
\* rows of a drawn trade table
MaxTradeRows == 2

(***************************************************************************)
(* Python values.                                                          *)
(***************************************************************************)
Null == 0 - 1

PyStr(s) == [k |-> "str", s |-> s, n |-> 0]
PyInt(n) == [k |-> "int", s |-> "", n |-> n]
PyNone == [k |-> "none", s |-> "", n |-> 0]
\* a tuple or a list of member names, s is its text
PyTuple(s) == [k |-> "tuple", s |-> s, n |-> 0]
PyList(s) == [k |-> "list", s |-> s, n |-> 0]

\* the decimal numerals the model uses: <<integer, its text>>
Numerals ==
    { <<1, "1">>, <<2, "2">>, <<3, "3">>, <<4, "4">>, <<9, "9">>,
      <<124, "124">>, <<260512, "260512">>,
      <<2020, "2020">>, <<2021, "2021">>,
      <<2605, "2605">>, <<7108, "7108">>, <<7901, "7901">>, <<9999, "9999">> }

IsNumeral(s) == \E p \in Numerals : p[2] = s

\* str(x) of Python
str(x) ==
    CASE x.k = "int" -> (CHOOSE p \in Numerals : p[1] = x.n)[2]
      [] x.k = "none" -> "None"
      [] OTHER -> x.s

\* int(x) of Python: [exc, v]; a str that is no numeral raises ValueError, a
\* tuple, a list or None raises TypeError
int(x) ==
    CASE x.k = "int" -> [exc |-> "none", v |-> x]
      [] x.k = "str" /\ IsNumeral(x.s) ->
            [exc |-> "none", v |-> PyInt((CHOOSE p \in Numerals : p[2] = x.s)[1])]
      [] x.k = "str" /\ ~IsNumeral(x.s) -> [exc |-> "ValueError", v |-> x]
      [] OTHER -> [exc |-> "TypeError", v |-> x]

\* a list cannot be hashed (dict membership, lru_cache key)
Hashable(x) == x.k # "list"

\* utils.create_id: str(HS) + str(ISO) + str(Year)
create_id(HS, ISO, Year) == str(HS) \o str(ISO) \o str(Year)

(***************************************************************************)
(* Exact fractions (the floats of the code).                               *)
(***************************************************************************)
RECURSIVE GCD(_, _)
GCD(a, b) == IF b = 0 THEN a ELSE GCD(b, a % b)

\* n / d for d > 0 and n >= 0, in lowest terms
Frac(n, d) == LET g == GCD(n, d) IN <<n \div g, d \div g>>

Zero == <<0, 1>>

(***************************************************************************)
(* Reference tables of db.production.                                      *)
(***************************************************************************)
\* db.production["Country_ISO"]: rows (Country, ISO)
Country_ISO ==
    << [Country |-> "A", ISO |-> 1],
       [Country |-> "B", ISO |-> 2],
       [Country |-> "C", ISO |-> 3] >>

CountryNames == { Country_ISO[i].Country : i \in DOMAIN Country_ISO }
CountryISOs == { Country_ISO[i].ISO : i \in DOMAIN Country_ISO }

\* db.production["HS Code Map"]: rows (ID, HS Code, Sheet_name)
HSCodeMap ==
    << [ID |-> "Cobalt", HSCode |-> "2605", Sheet_name |-> "Cobalt"],
       [ID |-> "Gold", HSCode |-> "7108", Sheet_name |-> "Gold"],
       [ID |-> "Helium", HSCode |-> "Not Available", Sheet_name |-> "Helium"],
       [ID |-> "Zinc", HSCode |-> "7901", Sheet_name |-> "Zinc"] >>

MapIDs == { HSCodeMap[i].ID : i \in DOMAIN HSCodeMap }
MapHSCodes == { HSCodeMap[i].HSCode : i \in DOMAIN HSCodeMap }

\* the unit tags of the production tables; NoUnit: the table has no unit column
NoUnit == "<no unit column>"
Units == {"metr. t", "kg", "Mio m3", "ct", NoUnit}

\* the columns of a table with the given unit tag and year columns
Columns(unit, years) ==
    {"Country", "Country_Code"} \cup years
        \cup (IF unit = NoUnit THEN {} ELSE {"unit"})

\* the year columns of the drawn table, and the producer of each of its rows
DrawnColumns == {"2020"}
Producers == <<"A", "B", "C", "D">>

Qty == {Null} \cup (0 .. MaxQty)

\* the production tables drawn for the resource Cobalt: up to MaxRows rows,
\* row i is the row of producer i, flagged for deletion or not
RowsOf(len) ==
    [ 1 .. len -> [Country_Code : {"OK", "DELETE"}, q : Qty] ]

MkRow(i, r) ==
    [Country |-> IF i <= Len(Producers) THEN Producers[i] ELSE "E", Country_Code |-> r.Country_Code,
     qty |-> [c \in DrawnColumns |-> r.q]]

Tables ==
    { [columns |-> Columns(u, DrawnColumns), unit |-> u,
       rows |-> [i \in DOMAIN f |-> MkRow(i, f[i])]] :
        u \in Units, f \in UNION { RowsOf(l) : l \in 0 .. MaxRows } }

\* a fixed table with two year columns: shares {A: 70, B: 30} in 2020
GoldTable ==
    [columns |-> Columns("kg", {"2020", "2021"}), unit |-> "kg",
     rows |-> << [Country |-> "A", Country_Code |-> "OK",
                  qty |-> [c \in {"2020", "2021"} |-> IF c = "2020" THEN 70 ELSE 50]],
                 [Country |-> "B", Country_Code |-> "OK",
                  qty |-> [c \in {"2020", "2021"} |-> IF c = "2020" THEN 30 ELSE 50]],
                 [Country |-> "C", Country_Code |-> "DELETE",
                  qty |-> [c \in {"2020", "2021"} |-> IF c = "2020" THEN 5000 ELSE Null]] >>]

\* a table without rows
EmptyTable ==
    [columns |-> Columns("metr. t", {"2020"}), unit |-> "metr. t", rows |-> << >>]

\* a malformed table: it has no Country_Code column
MalformedTable ==
    [columns |-> {"Country", "unit", "2020"}, unit |-> "metr. t",
     rows |-> << [Country |-> "A", Country_Code |-> "OK",
                  qty |-> [c \in {"2020"} |-> 4]] >>]

(***************************************************************************)
(* Outcomes of a call.                                                     *)
(***************************************************************************)
\* a resolver's outcome: exc = "none" and the value, or the exception raised
Ok(v) == [exc |-> "none", v |-> v]
Raise(e) == [exc |-> e, v |-> PyNone]

\* the outcome of HHI / cached_HHI: kind = "return" with (qty, hhi), or kind =
\* "raise" with the exception in exc. For a return, exc is the exception the
\* function caught on the way ("none" if none) and path the return statement
\* taken: "nodata" (core.py:32), "caught" (core.py:68), "normal" (core.py:70)
Returned(path, exc, qty, hhi) ==
    [kind |-> "return", path |-> path, exc |-> exc, qty |-> qty, hhi |-> hhi]
Raised(e) ==
    [kind |-> "raise", path |-> "raise", exc |-> e, qty |-> 0, hhi |-> Zero]

(***************************************************************************)
(* utils.cvtcountry                                                        *)
(***************************************************************************)
InRegionsList(d, country) ==
    country.k = "str" /\ country.s \in DOMAIN d.regionslist

IsCountryName(country) == country.k = "str" /\ country.s \in CountryNames
IsCountryISO(country) == country.k = "int" /\ country.n \in CountryISOs

ISOOfName(name) ==
    Country_ISO[CHOOSE i \in DOMAIN Country_ISO : Country_ISO[i].Country = name].ISO
NameOfISO(iso) ==
    Country_ISO[CHOOSE i \in DOMAIN Country_ISO : Country_ISO[i].ISO = iso].Country

\* faulty variant: the region registry is looked at before the country names
cvtcountryISO_RegionsFirst(d, country) ==
    IF d.regional /\ ~Hashable(country)
    THEN Raise("TypeError")
    ELSE IF d.regional /\ InRegionsList(d, country)
    THEN Ok(country)
    ELSE IF IsCountryName(country)
    THEN Ok(PyInt(ISOOfName(country.s)))
    ELSE LET c == int(country)
         IN  IF c.exc # "none" THEN Raise(c.exc)
             ELSE IF IsCountryISO(c.v) THEN Ok(c.v)
             ELSE Raise("ValueError")

cvtcountryISO(d, country) ==
    IF IsCountryName(country)
    THEN Ok(PyInt(ISOOfName(country.s)))
    ELSE IF d.regional /\ ~Hashable(country)
    THEN Raise("TypeError")
    ELSE IF d.regional /\ InRegionsList(d, country)
    THEN Ok(country)
    ELSE LET c == int(country)
         IN  IF c.exc # "none" THEN Raise(c.exc)
             ELSE IF IsCountryISO(c.v) THEN Ok(c.v)
             ELSE Raise("ValueError")

cvtcountryName(d, country) ==
    LET c == int(country)
    IN  IF c.exc = "TypeError" THEN Raise("TypeError")
        ELSE LET cc == IF c.exc = "ValueError" THEN PyStr(str(country)) ELSE c.v
             IN  IF IsCountryISO(cc) THEN Ok(PyStr(NameOfISO(cc.n)))
                 ELSE IF IsCountryName(cc) THEN Ok(cc)
                 ELSE IF d.regional /\ InRegionsList(d, cc) THEN Ok(cc)
                 ELSE Raise("ValueError")

cvtcountry(d, country, type) ==
    CASE type = "ISO" -> cvtcountryISO(d, country)
      [] type = "Name" -> cvtcountryName(d, country)
      [] OTHER -> Raise("ValueError")

(***************************************************************************)
(* utils.getProd, utils.sumproduct                                         *)
(***************************************************************************)
getProd(resource, d) ==
    IF resource.k = "str" /\ resource.s \in MapIDs
    THEN Ok(d.production[
            HSCodeMap[CHOOSE i \in DOMAIN HSCodeMap : HSCodeMap[i].ID = resource.s].Sheet_name])
    ELSE IF str(resource) \in MapHSCodes /\ resource # PyStr("Not Available")
    THEN Ok(d.production[
            HSCodeMap[CHOOSE i \in DOMAIN HSCodeMap : HSCodeMap[i].HSCode = str(resource)].Sheet_name])
    ELSE Raise("ValueError")

RECURSIVE sum(_)
sum(A) == IF A = << >> THEN 0 ELSE Head(A) + sum(Tail(A))

\* faulty variant: the factor of the second list is dropped
sumproduct_NoProduct(A, B) ==
    LET n == IF Len(A) <= Len(B) THEN Len(A) ELSE Len(B)
    IN  sum([i \in 1 .. n |-> A[i]])

\* zip stops at the shorter list
sumproduct(A, B) ==
    LET n == IF Len(A) <= Len(B) THEN Len(A) ELSE Len(B)
    IN  sum([i \in 1 .. n |-> A[i] * B[i]])

(***************************************************************************)
(* core.HHI                                                                *)
(***************************************************************************)
\* faulty variant: the check of the year's column is forgotten
NoProductionData_EmptyOnly(proddf, year) == proddf.rows = << >>

\* core.py:30: the table is empty or has no column for the year
NoProductionData(proddf, year) ==
    proddf.rows = << >> \/ str(PyInt(year)) \notin proddf.columns

\* faulty variant: the rows flagged DELETE are kept
NotDeleted_KeepAll(row) == row.Country_Code = row.Country_Code

\* core.py:35: the rows kept
NotDeleted(row) == row.Country_Code # "DELETE"

\* proddf[proddf["Country_Code"] != "DELETE"]: the rows kept, or KeyError
DropDeleted(proddf) ==
    IF "Country_Code" \in proddf.columns
    THEN Ok(SelectSeq(proddf.rows, NotDeleted))
    ELSE Raise("KeyError")

\* core.py:36: fillna(0)
fillna(x) == IF x = Null THEN 0 ELSE x

\* proddf[str(year)]: the column, or KeyError
YearColumn(rows, columns, year) ==
    IF str(PyInt(year)) \in columns
    THEN Ok([i \in DOMAIN rows |-> rows[i].qty[str(PyInt(year))]])
    ELSE Raise("KeyError")

\* faulty variant: the denominator is not squared
HHIValue_NotSquared(HHI_Num, total) ==
    IF total > 0 THEN Frac(HHI_Num, total) ELSE Zero

\* core.py:40
HHIValue(HHI_Num, total) ==
    IF total > 0 THEN Frac(HHI_Num, total * total) ELSE Zero

\* core.py:48-51: the quantity of the first row of the resolved country
CountryRow(rows, prod_year, country_name) ==
    IF country_name.exc # "none" THEN Raise(country_name.exc)
    ELSE IF \E i \in DOMAIN rows : rows[i].Country = country_name.v.s
    THEN Ok(prod_year[CHOOSE i \in DOMAIN rows :
                /\ rows[i].Country = country_name.v.s
                /\ \A j \in 1 .. i - 1 : rows[j].Country # country_name.v.s])
    ELSE Ok(0)

\* core.py:46-54: the production quantity of the requested country
CountryProd(d, rows, prod_year, country) ==
    IF country # PyNone
    THEN CountryRow(rows, prod_year, cvtcountry(d, country, "Name"))
    ELSE Ok(sum(prod_year))

\* faulty variant: a unit outside the recognized set passes silently
NormalizeProdQty_PassThrough(proddf, rows, ProdQty) ==
    IF rows # << >> /\ "unit" \in proddf.columns
    THEN CASE proddf.unit = "kg" -> Ok(Frac(ProdQty, 1000))
           [] proddf.unit = "Mio m3" -> Ok(Frac(ProdQty * 8, 10000))
           [] OTHER -> Ok(Frac(ProdQty, 1))
    ELSE Ok(Frac(ProdQty, 1))

\* core.py:57-64: the normalized total ProdQty (a fraction), or ValueError
NormalizeProdQty(proddf, rows, ProdQty) ==
    IF rows # << >> /\ "unit" \in proddf.columns
    THEN CASE proddf.unit = "kg" -> Ok(Frac(ProdQty, 1000))
           [] proddf.unit = "Mio m3" -> Ok(Frac(ProdQty * 8, 10000))
           [] proddf.unit \notin {"metr. t", "kg", "Mio m3"} -> Raise("ValueError")
           [] OTHER -> Ok(Frac(ProdQty, 1))
    ELSE Ok(Frac(ProdQty, 1))

\* the body of the try left by an exception, by the return of core.py:32, or
\* by falling through to the return of core.py:70
Failed(e) == [exc |-> e, ret |-> 0, country_prod |-> 0, hhi |-> Zero]
NoData == [exc |-> "none", ret |-> 32, country_prod |-> 0, hhi |-> Zero]
Completed(country_prod, hhi) ==
    [exc |-> "none", ret |-> 70, country_prod |-> country_prod, hhi |-> hhi]

\* core.py:45-64: the country's quantity, then the unit check
HHIFinish(hhi, country_prod, normalized) ==
    IF country_prod.exc # "none" THEN Failed(country_prod.exc)
    ELSE IF normalized.exc # "none" THEN Failed(normalized.exc)
    ELSE Completed(country_prod.v, hhi)

\* core.py:38-64, prod_year being the quantities of the year
HHIOfYear(proddf, rows, prod_year, d, country) ==
    HHIFinish(HHIValue(sumproduct(prod_year, prod_year), sum(prod_year)),
              CountryProd(d, rows, prod_year, country),
              NormalizeProdQty(proddf, rows, sum(prod_year)))

\* core.py:36
HHIOfColumn(proddf, rows, column, d, country) ==
    IF column.exc # "none" THEN Failed(column.exc)
    ELSE HHIOfYear(proddf, rows, [i \in DOMAIN rows |-> fillna(column.v[i])],
                   d, country)

\* core.py:35-36
HHIOfRows(proddf, kept, year, d, country) ==
    IF kept.exc # "none" THEN Failed(kept.exc)
    ELSE HHIOfColumn(proddf, kept.v, YearColumn(kept.v, proddf.columns, year),
                     d, country)

\* core.py:30-64, got being what getProd gave
HHIOfTable(got, year, d, country) ==
    IF got.exc # "none" THEN Failed(got.exc)
    ELSE IF NoProductionData(got.v, year) THEN NoData
    ELSE HHIOfRows(got.v, DropDeleted(got.v), year, d, country)

\* core.py:28-64, the body of the try: the exception it raises, or the values
\* of its locals at the return reached (ret = 32 or 70)
HHITry(resource, year, d, country) ==
    HHIOfTable(getProd(resource, d), year, d, country)

\* faulty variant: except ValueError, every other exception leaves the function
HHIExcept_ValueErrorOnly(t) ==
    IF t.exc = "ValueError" THEN Returned("caught", t.exc, 0, Zero)
    ELSE IF t.exc # "none" THEN Raised(t.exc)
    ELSE IF t.ret = 32 THEN Returned("nodata", "none", 0, Zero)
    ELSE Returned("normal", "none", t.country_prod, t.hhi)

\* core.py:66-70: except Exception turns every exception of the body into
\* (0, 0)
HHIExcept(t) ==
    IF t.exc # "none" THEN Returned("caught", t.exc, 0, Zero)
    ELSE IF t.ret = 32 THEN Returned("nodata", "none", 0, Zero)
    ELSE Returned("normal", "none", t.country_prod, t.hhi)

\* core.py:22-70
HHI(resource, year, d, country) == HHIExcept(HHITry(resource, year, d, country))

(***************************************************************************)
(* utils.regions                                                           *)
(***************************************************************************)
\* one item of region_dict: the key, whether it is a str, whether the value is
\* a list, and the members
Item(key, members) ==
    [key |-> key, keyIsStr |-> TRUE, valueIsList |-> TRUE, members |-> members]

\* utils.py:508-513
MissingCountries(members) ==
    SelectSeq(members, LAMBDA x : ~IsCountryName(x) /\ ~IsCountryISO(x))

\* utils.py:504-519: the loop over the items from item i on; rejected when an
\* item made the function return None (utils.py:507, utils.py:516)
RECURSIVE RegionsLoop(_, _, _, _)
RegionsLoop(region_dict, i, regionslist, trackregion) ==
    IF i > Len(region_dict)
    THEN [rejected |-> FALSE, regionslist |-> regionslist, trackregion |-> trackregion]
    ELSE LET item == region_dict[i]
         IN  IF ~item.keyIsStr \/ ~item.valueIsList
             THEN [rejected |-> TRUE, regionslist |-> regionslist,
                   trackregion |-> trackregion]
             ELSE IF MissingCountries(item.members) # << >>
             THEN [rejected |-> TRUE, regionslist |-> regionslist,
                   trackregion |-> trackregion]
             ELSE RegionsLoop(region_dict, i + 1,
                    [k \in DOMAIN regionslist \cup {item.key} |->
                        IF k = item.key THEN item.members ELSE regionslist[k]],
                    trackregion + 1)

\* utils.py:525-527
AddCountries(regionslist) ==
    [k \in DOMAIN regionslist \cup CountryNames |->
        IF k \in DOMAIN regionslist THEN regionslist[k] ELSE <<PyStr(k)>>]

\* utils.py:498-527: the db after regions(region_dict, db)
regions(region_dict, d) ==
    LET loop == RegionsLoop(region_dict, 1, d.regionslist, 0)
    IN  IF loop.rejected
        THEN [d EXCEPT !.regionslist = loop.regionslist]
        ELSE [d EXCEPT !.regionslist = AddCountries(loop.regionslist),
                       !.regional = IF loop.trackregion > 0 THEN TRUE ELSE d.regional]

RegionsRejected(region_dict, d) ==
    RegionsLoop(region_dict, 1, d.regionslist, 0).rejected

(***************************************************************************)
(* core.cached_HHI                                                         *)
(***************************************************************************)
\* core.py:76-78: except Exception of the wrapped function
CachedExcept(r) ==
    IF r.kind = "raise" THEN Returned("caught", r.exc, 0, Zero) ELSE r

\* core.py:73-78: the wrapped function
cached_HHI_wrapped(resource, year, d, country) ==
    CachedExcept(HHI(resource, year, d, country))

\* the key lru_cache makes of the arguments (one db)
CacheKey(resource, year, country) == <<resource, year, country>>

\* faulty variant: a cache of one entry, a new key evicts the stored one
CacheStore_SingleEntry(c, key, value) == [k \in {key} |-> value]

\* core.py:72, lru_cache(maxsize=None): the cache after a miss stored value
CacheStore(c, key, value) ==
    [k \in DOMAIN c \cup {key} |-> IF k = key THEN value ELSE c[k]]

\* how often the wrapped function was invoked for a key (the call counter)
Invocations(n, key) == IF key \in DOMAIN n THEN n[key] ELSE 0

(***************************************************************************)
(* The state machine.                                                      *)
(***************************************************************************)
\* Database.__init__ and Database.initialize: the preset region EU
DefaultRegions == [k \in {"EU"} |-> <<PyStr("A"), PyStr("B")>>]

\* the production table of Cobalt in the runs of the whole machine
CobaltTable ==
    [columns |-> Columns("metr. t", DrawnColumns), unit |-> "metr. t",
     rows |-> << MkRow(1, [Country_Code |-> "OK", q |-> 2]),
                 MkRow(2, [Country_Code |-> "OK", q |-> 1]) >>]

Production(cobalt) ==
    [sheet \in {"Cobalt", "Gold", "Helium", "Zinc"} |->
        CASE sheet = "Cobalt" -> cobalt
          [] sheet = "Gold" -> GoldTable
          [] sheet = "Zinc" -> MalformedTable
          [] OTHER -> EmptyTable]

NoCall ==
    [op |-> "none", resource |-> PyNone, year |-> 0, country |-> PyNone,
     dict |-> << >>, hit |-> FALSE, out |-> Returned("none", "none", 0, Zero)]

\* the arguments of the calls
Resources ==
    { PyStr("Cobalt"), PyInt(2605), PyStr("Gold"), PyStr("Helium"),
      PyStr("Zinc"), PyStr("Not Available"), PyStr("Unobtainium") }
Years == {2020, 2021}
Countries ==
    { PyNone, PyStr("A"), PyStr("B"), PyInt(1), PyStr("2"), PyStr("Z"),
      PyStr("R"), PyTuple("A,B"), PyList("A,B") }
RegionDicts ==
    { << >>,
      << Item("R", <<PyStr("A"), PyStr("B")>>) >>,
      << Item("R", <<PyStr("A"), PyStr("Z")>>) >>,
      << Item("R", <<PyStr("A"), PyStr("B")>>), Item("S", <<PyStr("Z")>>) >> }

\* the arguments of the calls of the whole machine
CachedResources == { PyStr("Gold") }
CachedCountries == { PyStr("A"), PyStr("R"), PyTuple("A,B"), PyList("A,B") }

InitDb(cobalt) ==
    [production |-> Production(cobalt), regional |-> FALSE,
     regionslist |-> DefaultRegions]

Init ==
    /\ db = InitDb(CobaltTable)
    /\ cache = << >>
    /\ ncalls = << >>
    /\ last = NoCall

\* a call regions(region_dict, db)
RegionsCall ==
    \E region_dict \in RegionDicts :
        /\ db' = regions(region_dict, db)
        /\ last' = [NoCall EXCEPT !.op = "regions", !.dict = region_dict,
                        !.out = Returned(IF RegionsRejected(region_dict, db)
                                         THEN "rejected" ELSE "accepted",
                                         "none", 0, Zero)]
        /\ UNCHANGED <<cache, ncalls>>

\* a call HHI(resource, year, db, country)
HHICallOf(resources, countries) ==
    \E resource \in resources, year \in Years, country \in countries :
        /\ last' = [NoCall EXCEPT !.op = "HHI", !.resource = resource,
                        !.year = year, !.country = country,
                        !.out = HHI(resource, year, db, country)]
        /\ UNCHANGED <<db, cache, ncalls>>

HHICall == HHICallOf(CachedResources, CachedCountries)

\* the lru_cache wrapper (core.py:72) around a call with the given key, value
\* being what the wrapped function returns now: an unhashable argument raises
\* TypeError, a hit returns the stored value, a miss invokes the wrapped
\* function and stores what it returns
LruCacheStep(call, key, value) ==
    IF ~Hashable(call.country)
    THEN /\ last' = [call EXCEPT !.out = Raised("TypeError")]
         /\ UNCHANGED <<db, cache, ncalls>>
    ELSE IF key \in DOMAIN cache
    THEN /\ last' = [call EXCEPT !.out = cache[key], !.hit = TRUE]
         /\ UNCHANGED <<db, cache, ncalls>>
    ELSE /\ Invocations(ncalls, key) < MaxInvocations
         /\ cache' = CacheStore(cache, key, value)
         /\ ncalls' = [k \in DOMAIN ncalls \cup {key} |->
                        IF k = key THEN Invocations(ncalls, key) + 1
                        ELSE ncalls[k]]
         /\ last' = [call EXCEPT !.out = value]
         /\ UNCHANGED db

\* a call cached_HHI(resource, year, db, country)
CachedHHICallOf(resources, countries) ==
    \E resource \in resources, year \in Years, country \in countries :
        LruCacheStep([NoCall EXCEPT !.op = "cached_HHI", !.resource = resource,
                          !.year = year, !.country = country],
                     CacheKey(resource, year, country),
                     cached_HHI_wrapped(resource, year, db, country))

CachedHHICall == CachedHHICallOf(CachedResources, CachedCountries)

Next == RegionsCall \/ HHICall \/ CachedHHICall

Spec == Init /\ [][Next]_vars

(***************************************************************************)
(* HHI as a function of the production table: the table of Cobalt is drawn,*)
(* the region registry is set up by at most one call of regions, and HHI   *)
(* or cached_HHI is called once.                                           *)
(***************************************************************************)
InitHHI ==
    /\ db \in { InitDb(t) : t \in Tables }
    /\ cache = << >>
    /\ ncalls = << >>
    /\ last = NoCall

SetUpRegions == last.op = "none" /\ RegionsCall

CallHHI ==
    last.op \notin {"HHI", "cached_HHI"} /\ HHICallOf(Resources, Countries)

CallCachedHHI ==
    last.op \notin {"HHI", "cached_HHI"} /\ CachedHHICallOf(Resources, Countries)

NextHHI == SetUpRegions \/ CallHHI \/ CallCachedHHI

SpecHHI == InitHHI /\ [][NextHHI]_vars

(***************************************************************************)
(* What the claims say, stated over the tables themselves.                 *)
(***************************************************************************)
RECURSIVE SetSum(_, _)
SetSum(f, S) ==
    IF S = {} THEN 0
    ELSE LET x == CHOOSE x \in S : TRUE IN f[x] + SetSum(f, S \ {x})

\* the production table of the resource of the last call, if it has one
HasTable == getProd(last.resource, db).exc = "none"
RequestedTable == getProd(last.resource, db).v
RequestedYear == str(PyInt(last.year))

\* the table has the requested year's column (and its Country_Code column)
HasYear ==
    /\ HasTable
    /\ "Country_Code" \in RequestedTable.columns
    /\ RequestedYear \in RequestedTable.columns

\* the rows not flagged DELETE and their quantities, null counted as 0
LiveRows ==
    { i \in DOMAIN RequestedTable.rows :
        RequestedTable.rows[i].Country_Code # "DELETE" }
Quantity ==
    [i \in DOMAIN RequestedTable.rows |->
        IF RequestedTable.rows[i].qty[RequestedYear] = Null THEN 0
        ELSE RequestedTable.rows[i].qty[RequestedYear]]
SquaredQuantity == [i \in DOMAIN RequestedTable.rows |-> Quantity[i] * Quantity[i]]
TotalQuantity == SetSum(Quantity, LiveRows)

\* the returned HHI is (sum of q^2) / (sum of q)^2, and 0 for a zero sum
HHIIsSumOfSquaredShares ==
    IF TotalQuantity = 0 THEN last.out.hhi = Zero
    ELSE last.out.hhi[1] * TotalQuantity * TotalQuantity
            = last.out.hhi[2] * SetSum(SquaredQuantity, LiveRows)

\* no degraded path: the country argument is None or resolves, and the unit
\* tag is a recognized one (or the table has no unit column)
CountryResolves ==
    last.country = PyNone \/ cvtcountry(db, last.country, "Name").exc = "none"
UnitRecognized ==
    "unit" \notin RequestedTable.columns
        \/ RequestedTable.unit \in {"metr. t", "kg", "Mio m3"}

C2_HHIInUnitInterval ==
    (last.op \in {"HHI", "cached_HHI"} /\ last.out.kind = "return") =>
        /\ last.out.hhi[2] > 0
        /\ 0 <= last.out.hhi[1]
        /\ last.out.hhi[1] <= last.out.hhi[2]

\* cached_HHI returned an HHI strictly between 0 and 1
C2_Witness ==
    /\ last.op = "cached_HHI" /\ last.out.kind = "return"
    /\ 0 < last.out.hhi[1] /\ last.out.hhi[1] < last.out.hhi[2]

\* HHI = 1 iff exactly one live producer has a non-zero quantity, and HHI is
\* exactly 1/n for n live producers of equal positive quantity
NonZeroProducers == { i \in LiveRows : Quantity[i] > 0 }
EqualProducers ==
    /\ LiveRows # {}
    /\ \A i, j \in LiveRows : Quantity[i] = Quantity[j] /\ Quantity[i] > 0
OneIffSingleProducer ==
    /\ (last.out.hhi = <<1, 1>>) <=> (Cardinality(NonZeroProducers) = 1)
    /\ EqualProducers =>
            last.out.hhi[1] * Cardinality(LiveRows) = last.out.hhi[2]

MembersOfText(text) == IF text = "A,B" THEN {"A", "B"} ELSE {}

\* the names of the members of a registered region
MembersOfRegion(name) ==
    { db.regionslist[name][i].s : i \in DOMAIN db.regionslist[name] }

\* the country argument names one country of the Country_ISO table, and its name
NamesACountry ==
    /\ last.country.k \in {"str", "int"}
    /\ cvtcountry(db, last.country, "Name").exc = "none"
    /\ cvtcountry(db, last.country, "Name").v.s \in CountryNames
\* the country argument names a region: a tuple of member names, or the name
\* of a region of the active registry
NamesARegion ==
    \/ last.country.k = "tuple"
    \/ /\ last.country.k = "str"
       /\ cvtcountry(db, last.country, "Name").exc = "none"
       /\ cvtcountry(db, last.country, "Name").v.s \notin CountryNames

\* the countries whose rows the claimed Quantity sums
RequestedCountries ==
    IF last.country.k = "tuple" THEN MembersOfText(last.country.s)
    ELSE IF NamesACountry THEN {cvtcountry(db, last.country, "Name").v.s}
    ELSE MembersOfRegion(cvtcountry(db, last.country, "Name").v.s)

\* the sum of the year's quantities over the rows of the requested countries
RequestedQuantity ==
    SetSum(Quantity,
           { i \in LiveRows : RequestedTable.rows[i].Country \in RequestedCountries })

\* C4, as claimed: the Quantity returned by HHI(resource, year, country) is the
\* sum of the year's quantities over the rows of the requested country, or over
\* the rows of all member countries when a region is requested, and 0 when no
\* row matches.
C4_Claim ==
    (last.op = "HHI" /\ HasYear /\ UnitRecognized
        /\ (NamesACountry \/ NamesARegion)) =>
        (last.out.kind = "return" /\ last.out.qty = RequestedQuantity)

\* the factor of the unit tag, as a fraction: kg / 1000, Mio m3 * 0.0008
NormalizedQuantity(raw) ==
    CASE "unit" \in RequestedTable.columns /\ RequestedTable.unit = "kg" ->
            Frac(raw, 1000)
      [] "unit" \in RequestedTable.columns /\ RequestedTable.unit = "Mio m3" ->
            Frac(raw * 8, 10000)
      [] OTHER -> Frac(raw, 1)

\* C5, as claimed: the Quantity HHI() returns is the raw quantity normalized
\* by the unit tag of the table (kg: / 1000, Mio m3: * 0.0008, metric tons:
\* unchanged), and the HHI returned does not depend on the unit tag.
C5_Claim ==
    (last.op = "HHI" /\ HasYear /\ UnitRecognized
        /\ (last.country = PyNone \/ NamesACountry)) =>
        /\ last.out.kind = "return"
        /\ Frac(last.out.qty, 1) =
            NormalizedQuantity(IF last.country = PyNone THEN TotalQuantity
                               ELSE RequestedQuantity)
        /\ HHIIsSumOfSquaredShares

\* the table of the resource carries a unit tag outside the recognized set
UnitUnrecognized ==
    /\ HasTable
    /\ "unit" \in RequestedTable.columns
    /\ RequestedTable.unit \notin {"metr. t", "kg", "Mio m3"}

\* C6, as claimed: when the resource table carries a unit tag outside the
\* recognized set, the HHI computation raises an error to its caller instead
\* of returning a value.
C6_Original ==
    (last.op = "HHI" /\ UnitUnrecognized /\ HasYear /\ LiveRows # {}
        /\ CountryResolves) =>
        last.out.kind = "raise"

\* C6, amended: when the resource table carries a unit tag outside the
\* recognized set, HHI() raises nothing to its caller and returns (0, 0).
C6_UnrecognizedUnitGivesZero ==
    (last.op = "HHI" /\ UnitUnrecognized) =>
        (last.out.kind = "return" /\ last.out.qty = 0 /\ last.out.hhi = Zero)

\* the ValueError of the unit check was raised, for a table of positive total
\* and a country that resolves, and caught inside HHI()
C6_Witness ==
    /\ last.op = "HHI" /\ UnitUnrecognized /\ HasYear /\ CountryResolves
    /\ TotalQuantity > 0
    /\ last.out.path = "caught" /\ last.out.exc = "ValueError"

\* C7: HHI(resource, year, country) returns exactly (0, 0) whenever the
\* production table of the resource is empty or has no column for the year, for
\* every country argument; the absence of data is no error (no exception is
\* raised inside HHI()).
C7_NoDataGivesZero ==
    (last.op = "HHI" /\ HasTable
        /\ (RequestedTable.rows = << >> \/ RequestedYear \notin RequestedTable.columns)) =>
        /\ last.out.kind = "return"
        /\ last.out.qty = 0 /\ last.out.hhi = Zero
        /\ last.out.exc = "none"

\* a table with rows and no column for the year, asked for with a country
\* argument that does not resolve
C7_Witness ==
    /\ last.op = "HHI" /\ HasTable
    /\ RequestedTable.rows # << >>
    /\ RequestedYear \notin RequestedTable.columns
    /\ ~CountryResolves
    /\ last.out.path = "nodata"

\* C8: HHI() never raises: for every input, an unknown resource, an
\* unresolvable country and a malformed table included, an internal failure
\* yields the return value (0, 0).
C8_HHINeverRaises ==
    last.op = "HHI" =>
        /\ last.out.kind = "return"
        /\ HHITry(last.resource, last.year, db, last.country).exc # "none" =>
                (last.out.qty = 0 /\ last.out.hhi = Zero)

\* a region given as a tuple made cvtcountry raise TypeError, for a table that
\* has the year's column, and HHI() returned (0, 0)
C8_Witness ==
    /\ last.op = "HHI" /\ HasYear /\ TotalQuantity > 0
    /\ last.country.k = "tuple"
    /\ last.out.kind = "return" /\ last.out.exc = "TypeError"

\* the key of the last call of cached_HHI
LastKey == CacheKey(last.resource, last.year, last.country)

\* the wrapped function was invoked at most once for every key
InvokedAtMostOnce == \A k \in DOMAIN ncalls : ncalls[k] <= 1

\* a step keeps every entry of the cache as it is
EntriesKept == \A k \in DOMAIN cache : k \in DOMAIN cache' /\ cache'[k] = cache[k]

\* a call of cached_HHI with a key of the cache returns the stored value, and
\* a call with a new key stores the value it returns
CachedCallReadsOrStores ==
    (last'.op = "cached_HHI" /\ last'.out.kind = "return") =>
        /\ LastKey' \in DOMAIN cache'
        /\ last'.out = cache'[LastKey']
        /\ LastKey' \in DOMAIN cache => last'.out = cache[LastKey']

C10_Claim == last.op = "cached_HHI" => last.out.kind = "return"

(***************************************************************************)
(* Numbers of the risk computations: exact fractions, signed.              *)
(***************************************************************************)
\* n / d for d # 0, in lowest terms with a positive denominator
FracNorm(n, d) == IF d < 0 THEN Frac(0 - n, 0 - d) ELSE Frac(n, d)
FracAdd(x, y) == Frac(x[1] * y[2] + y[1] * x[2], x[2] * y[2])
FracMul(x, y) == Frac(x[1] * y[1], x[2] * y[2])
FracDiv(x, y) == FracNorm(x[1] * y[2], x[2] * y[1])
FracLeq(x, y) == x[1] * y[2] <= y[1] * x[2]
FracLt(x, y) == x[1] * y[2] < y[1] * x[2]
Half == <<1, 2>>

\* a value met where the code expects a number: a float, an int, None, or a
\* string
Num(f) == [k |-> "float", s |-> "", f |-> f]
IntNum(n) == [k |-> "int", s |-> "", f |-> <<n, 1>>]
None == [k |-> "none", s |-> "", f |-> Zero]
Text(s) == [k |-> "str", s |-> s, f |-> Zero]
IsNum(x) == x.k \in {"float", "int"}

(***************************************************************************)
(* core.GeoPolRisk                                                         *)
(***************************************************************************)
\* faulty variant: only a zero denominator is refused
InvalidDenominator_ZeroOnly(denominator) == denominator.f = Zero

\* core.py:199, denominator <= 0
InvalidDenominator(denominator) == FracLeq(denominator.f, Zero)

\* faulty variant: the price is not compared with 0
CharacterizationFactor_AnyPrice(Score, price) == FracMul(Score, price)

\* core.py:205, CF = Score * price if price > 0 else 0
CharacterizationFactor(Score, price) ==
    IF FracLt(Zero, price) THEN FracMul(Score, price) ELSE Zero

\* the outcome of the try body of GeoPolRisk: exc, and the triple returned
RiskFailed(e) == [exc |-> e, Score |-> Zero, CF |-> Zero, WTA |-> Zero]
RiskValues(Score, CF, WTA) == [exc |-> "none", Score |-> Score, CF |-> CF, WTA |-> WTA]

\* faulty variant: the Score is hhi times the square of the weighted share
GeoPolRiskScore_SquaredShare(WTA, hhi, price) ==
    IF ~IsNum(hhi) \/ ~IsNum(price) THEN RiskFailed("TypeError")
    ELSE RiskValues(FracMul(hhi.f, FracMul(WTA, WTA)),
                    CharacterizationFactor(FracMul(hhi.f, FracMul(WTA, WTA)), price.f), WTA)

\* core.py:203-205, from Score on; hhi is a number here
GeoPolRiskScore(WTA, hhi, price) ==
    IF ~IsNum(hhi) \/ ~IsNum(price) THEN RiskFailed("TypeError")
    ELSE RiskValues(FracMul(hhi.f, WTA),
                    CharacterizationFactor(FracMul(hhi.f, WTA), price.f), WTA)

\* core.py:198-205, the try body
GeoPolRiskTry(numerator, denominator, price, hhi) ==
    IF ~IsNum(denominator) THEN RiskFailed("TypeError")
    ELSE IF InvalidDenominator(denominator) THEN RiskValues(Zero, Zero, Zero)
    ELSE IF ~IsNum(numerator) THEN RiskFailed("TypeError")
    ELSE GeoPolRiskScore(FracDiv(numerator.f, denominator.f),
                         IF hhi = None THEN Num(Zero) ELSE hhi, price)

\* core.py:207-211, except Exception: return 0, 0, 0; else the triple
GeoPolRiskExcept(t) ==
    IF t.exc # "none"
    THEN [kind |-> "return", exc |-> t.exc, Score |-> Zero, CF |-> Zero, WTA |-> Zero]
    ELSE [kind |-> "return", exc |-> "none", Score |-> t.Score, CF |-> t.CF, WTA |-> t.WTA]

GeoPolRisk(numerator, denominator, price, hhi) ==
    GeoPolRiskExcept(GeoPolRiskTry(numerator, denominator, price, hhi))

\* the arguments of the calls of GeoPolRisk
RiskNumbers == { Num(<<0 - 1, 1>>), Num(Zero), Num(Half), Num(<<1, 1>>), Num(<<2, 1>>) }
RiskArguments == RiskNumbers \cup { None, Text("NA") }

(***************************************************************************)
(* utils.cvtresource                                                       *)
(***************************************************************************)
IsResourceID(resource) == resource.k = "str" /\ resource.s \in MapIDs
HSCodeOfID(id) ==
    HSCodeMap[CHOOSE i \in DOMAIN HSCodeMap : HSCodeMap[i].ID = id].HSCode
IDOfHSCode(code) ==
    HSCodeMap[CHOOSE i \in DOMAIN HSCodeMap :
                /\ HSCodeMap[i].HSCode = code
                /\ \A j \in 1 .. (i - 1) : HSCodeMap[j].HSCode # code].ID

\* utils.py:51-58: int(resource), any exception becomes ValueError; a number
\* that is no HS code falls off the end of the function, which returns None
cvtresourceHSOfCode(converted) ==
    IF converted.exc # "none" THEN Raise("ValueError")
    ELSE IF str(converted.v) \in MapHSCodes THEN Ok(converted.v)
    ELSE Ok(PyNone)

\* utils.py:47-58
cvtresourceHS(resource) ==
    IF IsResourceID(resource)
    THEN int(PyStr(HSCodeOfID(resource.s)))
    ELSE cvtresourceHSOfCode(int(resource))

\* utils.py:67-74, resource after the int() / str() of utils.py:60-66
cvtresourceNameOf(resource) ==
    IF str(resource) \in MapHSCodes THEN Ok(PyStr(IDOfHSCode(str(resource))))
    ELSE IF IsResourceID(resource) THEN Ok(resource)
    ELSE Raise("ValueError")

\* utils.py:59-74
cvtresourceName(resource) ==
    cvtresourceNameOf(IF int(resource).exc = "none" THEN int(resource).v
                      ELSE PyStr(str(resource)))

\* a type that is neither "HS" nor "Name" takes no branch: None is returned
cvtresource(d, resource, type) ==
    CASE type = "HS" -> cvtresourceHS(resource)
      [] type = "Name" -> cvtresourceName(resource)
      [] OTHER -> Ok(PyNone)

(***************************************************************************)
(* Coercion of the cells of a trade table.                                 *)
(***************************************************************************)
\* the strings float() parses, and str.strip() on the strings of the model
FloatTexts == { <<"1", <<1, 1>> >>, <<"2", <<2, 1>> >>, <<"4", <<4, 1>> >> }
IsFloatText(s) == \E p \in FloatTexts : p[1] = s
FloatOfText(s) == (CHOOSE p \in FloatTexts : p[1] = s)[2]
strip(s) == CASE s = " NA " -> "NA" [] s = " " -> "" [] OTHER -> s

\* float(x), and astype(float) on one cell: ValueError for a string that is
\* no number; None does not reach it (every coercion below replaces None first)
float(x) ==
    CASE IsNum(x) -> Ok(Num(x.f))
      [] x.k = "str" /\ IsFloatText(x.s) -> Ok(Num(FloatOfText(x.s)))
      [] x.k = "str" -> Raise("ValueError")
      [] OTHER -> Raise("TypeError")

\* utils.replace_func: an int has no strip()
replace_func(x) ==
    CASE x.k = "float" -> Ok(x)
      [] x.k = "none" -> Ok(IntNum(0))
      [] x.k = "str" /\ (strip(x.s) = "NA" \/ x.s = " ") -> Ok(IntNum(0))
      [] x.k = "str" -> Ok(x)
      [] OTHER -> Raise("AttributeError")

\* importrisk.replace_func (core.py:86-91)
importrisk_replace_func(x) ==
    IF x = None \/ x = Text("NA") THEN Ok(Num(Zero))
    ELSE IF float(x).exc \in {"ValueError", "TypeError"} THEN Ok(Num(Zero))
    ELSE float(x)

\* importrisk.wgi_func (core.py:93-97)
wgi_func(x) ==
    CASE x.k = "float" -> Ok(x)
      [] x.k = "none" -> Ok(Num(Half))
      [] x.k = "str" /\ strip(x.s) = "NA" -> Ok(Num(Half))
      [] x.k = "str" -> Ok(x)
      [] OTHER -> Raise("AttributeError")

\* column.apply(f).astype(float) on one cell, f's outcome given
AsFloat(applied) == IF applied.exc # "none" THEN applied ELSE float(applied.v)

\* the cells of a column after apply(f).astype(float): the outcomes per row
\* given, the floats of the column or the first exception
Column(outcomes) ==
    IF \E i \in DOMAIN outcomes : outcomes[i].exc # "none"
    THEN Raise(outcomes[CHOOSE i \in DOMAIN outcomes :
                    /\ outcomes[i].exc # "none"
                    /\ \A j \in 1 .. (i - 1) : outcomes[j].exc = "none"].exc)
    ELSE Ok([i \in DOMAIN outcomes |-> outcomes[i].v.f])

\* the three coercions, on the column of a field
UtilsColumn(rows, field) ==
    Column([i \in DOMAIN rows |-> AsFloat(replace_func(rows[i][field]))])
ImportriskColumn(rows, field) ==
    Column([i \in DOMAIN rows |-> AsFloat(importrisk_replace_func(rows[i][field]))])
WgiColumn(rows, field) ==
    Column([i \in DOMAIN rows |-> AsFloat(wgi_func(rows[i][field]))])

\* sum and utils.sumproduct on floats
RECURSIVE fsum(_)
fsum(A) == IF A = << >> THEN Zero ELSE FracAdd(Head(A), fsum(Tail(A)))
fsumproduct(A, B) ==
    LET n == IF Len(A) <= Len(B) THEN Len(A) ELSE Len(B)
    IN  fsum([i \in 1 .. n |-> FracMul(A[i], B[i])])

(***************************************************************************)
(* Trade tables (db.baci_trade and its filtered copies).                   *)
(***************************************************************************)
\* the cells (qty, cifvalue, partnerWGI) of the drawn rows
TradeCells ==
    { << Num(<<2, 1>>), Num(<<4, 1>>), Num(Half) >>,
      << Num(<<1, 1>>), Num(<<1, 1>>), Num(Zero) >>,
      << Num(<<2, 1>>), Num(<<4, 1>>), Text("NA") >>,
      << Num(<<2, 1>>), Num(<<4, 1>>), None >>,
      << Num(<<2, 1>>), Num(<<4, 1>>), Text(" ") >>,
      << Text("NA"), None, Num(Half) >>,
      << IntNum(1), Num(<<4, 1>>), Num(<<1, 1>>) >>,
      << Text("abc"), Num(<<4, 1>>), Num(Half) >>,
      << Text("2"), Text("4"), Text("1") >>,
      << Num(Zero), Num(Zero), Num(Half) >> }

\* cells of rows with nothing missing; the second has a partnerWGI of 0
PlainCells ==
    { << Num(<<2, 1>>), Num(<<4, 1>>), Num(Half) >>,
      << Num(<<1, 1>>), Num(<<1, 1>>), Num(Zero) >> }

\* reporter code, partner code and partner name of the drawn rows; Q is a
\* partner that the Country_ISO table does not hold
FirstPair == <<1, 2, "B">>
TradePairs == { FirstPair, <<1, 3, "C">>, <<2, 3, "C">>, <<1, 9, "Q">> }

\* the types of the key columns of a table: "int" and "str" for Python ints
\* or Python strings throughout, "mixed" for a period column of strings with
\* reporterCode and partnerCode columns of ints
Typings == {"int", "str", "mixed"}
PeriodCell(typing, n) == IF typing = "int" THEN PyInt(n) ELSE PyStr(str(PyInt(n)))
CodeCell(typing, n) == IF typing = "str" THEN PyStr(str(PyInt(n))) ELSE PyInt(n)

TradeRow(typing, pair, cells) ==
    [period |-> PeriodCell(typing, 2020),
     reporterCode |-> CodeCell(typing, pair[1]),
     partnerCode |-> CodeCell(typing, pair[2]),
     partnerDesc |-> PyStr(pair[3]),
     cmdCode |-> PyStr("2605"),
     qty |-> cells[1], cifvalue |-> cells[2], partnerWGI |-> cells[3]]

\* the rows drawn for the aggregations: every cell for the first pair, plain
\* cells for the others
TradeRows(typing) ==
    { TradeRow(typing, FirstPair, cells) : cells \in TradeCells }
        \cup { TradeRow(typing, pair, cells) : pair \in TradePairs, cells \in PlainCells }

TradeTablesOf(rows) == UNION { [1 .. n -> rows] : n \in 0 .. MaxTradeRows }

TradeTables == UNION { TradeTablesOf(TradeRows(typing)) : typing \in {"int", "str"} }

(***************************************************************************)
(* utils.aggregateTrade                                                    *)
(***************************************************************************)
\* utils.py:312-316, the rows of one member
MemberRow(row, year, commoditycode, country_code) ==
    /\ row.period = PyStr(str(year))
    /\ row.cmdCode = PyStr(str(commoditycode))
    /\ row.reporterCode = PyStr(str(country_code))

NoTotals == [qty |-> Zero, value |-> Zero, numerator |-> Zero]

\* utils.py:323-334, the columns of the member's rows added to the totals
AddMember(totals, qty, cifvalue, partnerWGI) ==
    IF qty.exc # "none" THEN Raise(qty.exc)
    ELSE IF cifvalue.exc # "none" THEN Raise(cifvalue.exc)
    ELSE IF partnerWGI.exc # "none" THEN Raise(partnerWGI.exc)
    ELSE Ok([qty |-> FracAdd(totals.qty, fsum(qty.v)),
             value |-> FracAdd(totals.value, fsum(cifvalue.v)),
             numerator |-> FracAdd(totals.numerator, fsumproduct(qty.v, partnerWGI.v))])

\* faulty variant: the value is not divided by the quantity
RegionPrice_ValueOnly(total_value, total_qty) ==
    IF FracLt(Zero, total_qty) THEN total_value ELSE Zero

\* utils.py:337
RegionPrice(total_value, total_qty) ==
    IF FracLt(Zero, total_qty) THEN FracDiv(total_value, total_qty) ELSE Zero

RECURSIVE aggregateTradeLoop(_, _, _, _, _, _, _)
RECURSIVE aggregateTradeMember(_, _, _, _, _, _, _, _)
RECURSIVE aggregateTradeRows(_, _, _, _, _, _, _, _)
RECURSIVE aggregateTradeNext(_, _, _, _, _, _, _)

\* utils.py:310-335, the loop over the countries from the i-th on
aggregateTradeLoop(filtered_data, year, countries, i, commoditycode, d, totals) ==
    IF i > Len(countries) THEN Ok(totals)
    ELSE aggregateTradeMember(filtered_data, year, countries, i, commoditycode, d,
                              totals, cvtcountry(d, countries[i], "ISO"))

aggregateTradeMember(filtered_data, year, countries, i, commoditycode, d, totals, country_code) ==
    IF country_code.exc # "none" THEN Raise(country_code.exc)
    ELSE aggregateTradeRows(filtered_data, year, countries, i, commoditycode, d, totals,
            SelectSeq(filtered_data,
                      LAMBDA row : MemberRow(row, year, commoditycode, country_code.v)))

aggregateTradeRows(filtered_data, year, countries, i, commoditycode, d, totals, country_data) ==
    IF country_data = << >>
    THEN aggregateTradeLoop(filtered_data, year, countries, i + 1, commoditycode, d, totals)
    ELSE aggregateTradeNext(filtered_data, year, countries, i, commoditycode, d,
            AddMember(totals, UtilsColumn(country_data, "qty"),
                      UtilsColumn(country_data, "cifvalue"),
                      UtilsColumn(country_data, "partnerWGI")))

aggregateTradeNext(filtered_data, year, countries, i, commoditycode, d, added) ==
    IF added.exc # "none" THEN added
    ELSE aggregateTradeLoop(filtered_data, year, countries, i + 1, commoditycode, d, added.v)

\* utils.py:337-339, the triple returned
aggregateTradeReturn(looped) ==
    IF looped.exc # "none"
    THEN [kind |-> "raise", exc |-> looped.exc,
          numerator |-> Zero, qty |-> Zero, price |-> Zero]
    ELSE [kind |-> "return", exc |-> "none",
          numerator |-> looped.v.numerator, qty |-> looped.v.qty,
          price |-> RegionPrice(looped.v.value, looped.v.qty)]

aggregateTrade(filtered_data, year, countries, commoditycode, d) ==
    aggregateTradeReturn(
        aggregateTradeLoop(filtered_data, year, countries, 1, commoditycode, d, NoTotals))

(***************************************************************************)
(* core.importrisk                                                         *)
(***************************************************************************)
\* core.py:102-106, the rows of the importer
ImporterRow(row, year, importer_iso, resource) ==
    /\ row.period = year
    /\ row.reporterCode = importer_iso
    /\ row.cmdCode = PyStr(str(resource))

\* core.py:125-130, the rows of the importer and one exporter
ExporterRow(row, year, importer_iso, exporter_iso, resource) ==
    /\ ImporterRow(row, year, importer_iso, resource)
    /\ row.partnerCode = exporter_iso

\* core.py:108-120: total_val / total_qty of the importer's rows if
\* total_qty > 0, else 0.0
CountryPriceOf(total_val, total_qty) ==
    IF FracLt(Zero, total_qty) THEN FracDiv(total_val, total_qty) ELSE Zero
\* faulty variant: the price of the importer's first row alone
CountryPrice_FirstRowOnly(country_trade_data) ==
    IF country_trade_data = << >> THEN Zero
    ELSE CountryPriceOf(ImportriskColumn(country_trade_data, "cifvalue").v[1],
                        ImportriskColumn(country_trade_data, "qty").v[1])
CountryPrice(country_trade_data) ==
    IF country_trade_data = << >> THEN Zero
    ELSE CountryPriceOf(fsum(ImportriskColumn(country_trade_data, "cifvalue").v),
                        fsum(ImportriskColumn(country_trade_data, "qty").v))

\* core.py:138-154: the row of one exporter, or nothing when a coercion
\* raised (core.py:156)
ExporterResult(exporter, QTY, WGI, global_price, country_price) ==
    IF QTY.exc # "none" \/ WGI.exc # "none" THEN << >>
    ELSE << [Exporter |-> exporter, Numerator |-> fsumproduct(QTY.v, WGI.v),
             TotalTrade |-> fsum(QTY.v), GlobalPrice |-> global_price,
             CountryPrice |-> country_price] >>

\* core.py:132-154
ExporterOfRows(exporter, tradedf, global_price, country_price) ==
    IF tradedf = << >> THEN << >>
    ELSE ExporterResult(exporter, ImportriskColumn(tradedf, "qty"),
                        WgiColumn(tradedf, "partnerWGI"), global_price, country_price)

\* core.py:122-158: one pass of the loop, exporter_iso being what cvtcountry gave
ExporterOfISO(exporter, exporter_iso, resource, year, importer_iso, trade_data, global_price, country_price) ==
    IF exporter_iso.exc # "none" THEN << >>
    ELSE ExporterOfRows(exporter,
            SelectSeq(trade_data,
                      LAMBDA row : ExporterRow(row, year, importer_iso, exporter_iso.v, resource)),
            global_price, country_price)

\* faulty variant: the first exporter without a row ends the loop
RECURSIVE importriskLoop_StopAtFailure(_, _, _, _, _, _, _, _, _)
importriskLoop_StopAtFailure(exporting_country, i, resource, year, importer_iso, trade_data, global_price, country_price, d) ==
    IF i > Len(exporting_country) THEN << >>
    ELSE IF ExporterOfISO(exporting_country[i], cvtcountry(d, exporting_country[i], "ISO"),
                          resource, year, importer_iso, trade_data, global_price,
                          country_price) = << >>
    THEN << >>
    ELSE ExporterOfISO(exporting_country[i], cvtcountry(d, exporting_country[i], "ISO"),
                       resource, year, importer_iso, trade_data, global_price, country_price)
            \o importriskLoop_StopAtFailure(exporting_country, i + 1, resource, year,
                    importer_iso, trade_data, global_price, country_price, d)

\* core.py:121-158: the results of the exporters from the i-th on
RECURSIVE importriskLoop(_, _, _, _, _, _, _, _, _)
importriskLoop(exporting_country, i, resource, year, importer_iso, trade_data, global_price, country_price, d) ==
    IF i > Len(exporting_country) THEN << >>
    ELSE ExporterOfISO(exporting_country[i], cvtcountry(d, exporting_country[i], "ISO"),
                       resource, year, importer_iso, trade_data, global_price, country_price)
            \o importriskLoop(exporting_country, i + 1, resource, year, importer_iso,
                              trade_data, global_price, country_price, d)

\* core.py:99-120 and the loop, importer_iso being what cvtcountry gave; an
\* exception of cvtcountry leaves the results empty (core.py:160-163)
importriskOfISO(importer_iso, resource, year, exporting_country, trade_data, global_price, d) ==
    IF importer_iso.exc # "none" THEN << >>
    ELSE importriskLoop(exporting_country, 1, resource, year, importer_iso.v, trade_data,
            global_price,
            CountryPrice(SelectSeq(trade_data,
                LAMBDA row : ImporterRow(row, year, importer_iso.v, resource))),
            d)

importrisk(resource, year, importing_country, exporting_country, trade_data, global_price, d) ==
    importriskOfISO(cvtcountry(d, importing_country, "ISO"), resource, year,
                    exporting_country, trade_data, global_price, d)

(***************************************************************************)
(* utils.preprocess_trade_data                                             *)
(***************************************************************************)
\* utils.py:357: str(cvtresource(db, rm, "HS")) of every resource, or the
\* exception of the first cvtresource that raises
ResourceCodes(resources, d) ==
    Column([i \in DOMAIN resources |->
              IF cvtresource(d, resources[i], "HS").exc # "none"
              THEN cvtresource(d, resources[i], "HS")
              ELSE Ok([f |-> PyStr(str(cvtresource(d, resources[i], "HS").v))])])

\* utils.py:358-361: isin compares the cells with the strings given
Preprocessed(baci_trade, periods, resource_codes) ==
    IF resource_codes.exc # "none" THEN Raise(resource_codes.exc)
    ELSE Ok(SelectSeq(baci_trade,
              LAMBDA row :
                /\ \E i \in DOMAIN periods : row.period = PyStr(str(periods[i]))
                /\ \E i \in DOMAIN resource_codes.v : row.cmdCode = resource_codes.v[i]))

\* utils.py:342-367
preprocess_trade_data(periods, resources, d) ==
    IF d.baci_trade = << >> THEN Raise("RuntimeError")
    ELSE Preprocessed(d.baci_trade, periods, ResourceCodes(resources, d))

(***************************************************************************)
(* main.gprs_calc                                                          *)
(***************************************************************************)
\* itertools.product(period, countries, resources), main.py:38: the k-th
\* combination <<year, importing_country, resource>>
Product(period, countries, resources) ==
    [k \in 1 .. (Len(period) * Len(countries) * Len(resources)) |->
        << period[((k - 1) \div (Len(countries) * Len(resources))) + 1],
           countries[(((k - 1) \div Len(resources)) % Len(countries)) + 1],
           resources[((k - 1) % Len(resources)) + 1] >>]

\* column.sum() of a column as read (main.py:61-62, main.py:76): a string in
\* the column makes the sum or its use raise TypeError, a null is skipped
RawSum(rows, field) ==
    IF \E i \in DOMAIN rows : rows[i][field].k = "str" THEN Raise("TypeError")
    ELSE Ok(fsum([i \in DOMAIN rows |->
                    IF IsNum(rows[i][field]) THEN rows[i][field].f ELSE Zero]))

\* main.py:60-63
GlobalPrice(cifvalue, qty) ==
    IF qty.exc # "none" THEN qty
    ELSE IF cifvalue.exc # "none" THEN cifvalue
    ELSE Ok(IF FracLt(Zero, qty.v) THEN FracDiv(cifvalue.v, qty.v) ELSE Zero)

\* Series.unique(), main.py:65: the values in the order of first appearance
RECURSIVE unique(_, _)
unique(column, i) ==
    IF i > Len(column) THEN << >>
    ELSE (IF \E j \in 1 .. (i - 1) : column[j] = column[i] THEN << >> ELSE << column[i] >>)
            \o unique(column, i + 1)

\* the year as the number whose text str(year) is
YearNumber(year) == int(PyStr(str(year))).v.n

\* faulty variant: a hit of the cache gives (0, 0) instead of the entry
CachedLookup_HitGivesZero(mem, key, hashable, value) ==
    IF ~hashable THEN [out |-> Raised("TypeError"), cache |-> mem.cache, ncalls |-> mem.ncalls]
    ELSE IF key \in DOMAIN mem.cache
    THEN [out |-> Returned("normal", "none", 0, Zero), cache |-> mem.cache, ncalls |-> mem.ncalls]
    ELSE [out |-> value, cache |-> CacheStore(mem.cache, key, value),
          ncalls |-> [k \in DOMAIN mem.ncalls \cup {key} |->
                        IF k = key THEN Invocations(mem.ncalls, key) + 1
                        ELSE mem.ncalls[k]]]

\* cached_HHI through lru_cache (core.py:72-78) with the cache given: what
\* the call gives and the cache after it
CachedLookup(mem, key, hashable, value) ==
    IF ~hashable THEN [out |-> Raised("TypeError"), cache |-> mem.cache, ncalls |-> mem.ncalls]
    ELSE IF key \in DOMAIN mem.cache
    THEN [out |-> mem.cache[key], cache |-> mem.cache, ncalls |-> mem.ncalls]
    ELSE [out |-> value, cache |-> CacheStore(mem.cache, key, value),
          ncalls |-> [k \in DOMAIN mem.ncalls \cup {key} |->
                        IF k = key THEN Invocations(mem.ncalls, key) + 1
                        ELSE mem.ncalls[k]]]

cached_HHI(mem, resource, year, d, country) ==
    CachedLookup(mem, CacheKey(resource, year, country), Hashable(country),
                 cached_HHI_wrapped(resource, YearNumber(year), d, country))

\* what the loop of gprs_calc carries: the results appended, the combinations
\* whose pass has begun, and the cache of cached_HHI
NoResults(mem) == [results |-> << >>, visited |-> << >>, cache |-> mem.cache, ncalls |-> mem.ncalls]
Visited(acc, i) == [acc EXCEPT !.visited = Append(acc.visited, i)]

\* gprs_calc ran to its end (main.py:121-128): the results are saved
BatchDone(acc) ==
    [kind |-> "return", exc |-> "none", results |-> acc.results,
     visited |-> acc.visited, cache |-> acc.cache, ncalls |-> acc.ncalls]
\* an exception left gprs_calc: nothing is saved
BatchAborted(e, acc) ==
    [kind |-> "raise", exc |-> e, results |-> << >>,
     visited |-> acc.visited, cache |-> acc.cache, ncalls |-> acc.ncalls]

\* main.py:90-102 and 107-119: the record appended to results; names holds
\* the names of the importer and of the resource, prices the two prices
ResultRow(combo, names, exporter, risk, hhi, prices) ==
    [Year |-> combo[1], Importer |-> names.Importer, Exporter |-> exporter,
     Resource |-> combo[3], ResourceName |-> names.Resource,
     Score |-> risk.Score, CF |-> risk.CF, HHI |-> hhi, IR |-> risk.WTA,
     GlobalPrice |-> prices.GlobalPrice, CountryPrice |-> prices.CountryPrice]

\* main.py:82-102: the rows of the exporters
ExporterRows(combo, names, risk_results, denominator, prices, hhi, d) ==
    [j \in DOMAIN risk_results |->
        ResultRow(combo, names,
                  cvtcountry(d, risk_results[j].Exporter, "Name").v,
                  GeoPolRisk(Num(risk_results[j].Numerator), Num(denominator),
                             Num(prices.CountryPrice), Num(hhi)),
                  hhi, prices)]

\* faulty variant: the "Global" row is added whatever the sum is
GlobalRows_Always(combo, names, global_numerator, denominator, prices, hhi) ==
    << ResultRow(combo, names, PyStr("Global"),
                 GeoPolRisk(Num(global_numerator), Num(denominator),
                            Num(prices.CountryPrice), Num(hhi)),
                 hhi, prices) >>

\* main.py:105-119: the "Global" row, added if global_numerator > 0
GlobalRows(combo, names, global_numerator, denominator, prices, hhi) ==
    IF FracLt(Zero, global_numerator)
    THEN << ResultRow(combo, names, PyStr("Global"),
                      GeoPolRisk(Num(global_numerator), Num(denominator),
                                 Num(prices.CountryPrice), Num(hhi)),
                      hhi, prices) >>
    ELSE << >>

\* main.py:92 and 95 (109 and 112): the names of the importer and of the
\* resource, identifiers that importrisk and cvtresource resolved before
NamesOfCombo(combo, d) ==
    [Importer |-> cvtcountry(d, combo[2], "Name").v,
     Resource |-> cvtresource(d, combo[3], "Name").v]

\* main.py:72 and 100-101: country_price is the CountryPrice of the first
\* result of importrisk; global_price (main.py:60-63) is the value importrisk
\* was given and copied into every result (core.py:152)
PricesOfCombo(risk_results) ==
    [GlobalPrice |-> risk_results[1].GlobalPrice,
     CountryPrice |-> risk_results[1].CountryPrice]

\* main.py:81-119: the rows of one combination
RowsOfCombo(combo, risk_results, denominator, hhi, d) ==
    ExporterRows(combo, NamesOfCombo(combo, d), risk_results,
                 denominator, PricesOfCombo(risk_results), hhi, d)
        \o GlobalRows(combo, NamesOfCombo(combo, d),
                      fsum([j \in DOMAIN risk_results |-> risk_results[j].Numerator]),
                      denominator, PricesOfCombo(risk_results), hhi)

RECURSIVE gprsLoop(_, _, _, _, _)
RECURSIVE gprsResource(_, _, _, _, _, _)
RECURSIVE gprsTrade(_, _, _, _, _, _, _)
RECURSIVE gprsPriced(_, _, _, _, _, _, _)
RECURSIVE gprsRisk(_, _, _, _, _, _, _)
RECURSIVE gprsHHI(_, _, _, _, _, _, _, _)
RECURSIVE gprsDenominator(_, _, _, _, _, _, _, _)

\* main.py:38-119: the passes of the loop from the i-th combination on
gprsLoop(combos, i, trade, d, acc) ==
    IF i > Len(combos) THEN BatchDone(acc)
    ELSE gprsResource(combos, i, trade, d, Visited(acc, i),
                      cvtresource(d, combos[i][3], "HS"))

\* main.py:40-51
gprsResource(combos, i, trade, d, acc, resource_hs) ==
    IF resource_hs.exc # "none" THEN BatchAborted(resource_hs.exc, acc)
    ELSE gprsTrade(combos, i, trade, d, acc,
            SelectSeq(trade, LAMBDA row :
                /\ row.period = combos[i][1]
                /\ row.cmdCode = PyStr(str(resource_hs.v))),
            SelectSeq(trade, LAMBDA row :
                /\ row.period = combos[i][1]
                /\ row.reporterCode = combos[i][2]
                /\ row.cmdCode = PyStr(str(combos[i][3]))))

\* main.py:53-63
gprsTrade(combos, i, trade, d, acc, global_trade, relevant_trade_data) ==
    IF global_trade = << >> \/ relevant_trade_data = << >>
    THEN gprsLoop(combos, i + 1, trade, d, acc)
    ELSE gprsPriced(combos, i, trade, d, acc, relevant_trade_data,
                    GlobalPrice(RawSum(global_trade, "cifvalue"), RawSum(global_trade, "qty")))

\* main.py:65-66
gprsPriced(combos, i, trade, d, acc, relevant_trade_data, global_price) ==
    IF global_price.exc # "none" THEN BatchAborted(global_price.exc, acc)
    ELSE gprsRisk(combos, i, trade, d, acc, relevant_trade_data,
            importrisk(combos[i][3], combos[i][1], combos[i][2],
                       unique([j \in DOMAIN relevant_trade_data |->
                                  relevant_trade_data[j].partnerDesc], 1),
                       trade, global_price.v, d))

\* main.py:67-74
gprsRisk(combos, i, trade, d, acc, relevant_trade_data, risk_results) ==
    IF risk_results = << >> THEN gprsLoop(combos, i + 1, trade, d, acc)
    ELSE gprsHHI(combos, i, trade, d, acc, relevant_trade_data, risk_results,
                 cached_HHI(acc, combos[i][3], combos[i][1], d, combos[i][2]))

\* main.py:74-76
gprsHHI(combos, i, trade, d, acc, relevant_trade_data, risk_results, looked) ==
    IF looked.out.kind = "raise" THEN BatchAborted(looked.out.exc, acc)
    ELSE gprsDenominator(combos, i, trade, d,
            [acc EXCEPT !.cache = looked.cache, !.ncalls = looked.ncalls],
            risk_results, looked.out, RawSum(relevant_trade_data, "qty"))

\* main.py:76-119
gprsDenominator(combos, i, trade, d, acc, risk_results, looked, qty) ==
    IF qty.exc # "none" THEN BatchAborted(qty.exc, acc)
    ELSE IF FracLeq(FracAdd(qty.v, <<looked.qty, 1>>), Zero)
    THEN gprsLoop(combos, i + 1, trade, d, acc)
    ELSE gprsLoop(combos, i + 1, trade, d,
            [acc EXCEPT !.results =
                acc.results \o RowsOfCombo(combos[i], risk_results,
                                           FracAdd(qty.v, <<looked.qty, 1>>), looked.hhi, d)])

\* main.py:33-119, preprocessed being what preprocess_trade_data gave and d
\* the database after regions() (main.py:34)
gprsOfTrade(preprocessed, period, countries, resources, d, mem) ==
    IF preprocessed.exc # "none" THEN BatchAborted(preprocessed.exc, NoResults(mem))
    ELSE gprsLoop(Product(period, countries, resources), 1, preprocessed.v, d, NoResults(mem))

\* main.py:25-128; regions() runs after preprocess_trade_data and its return
\* value is not looked at
gprs_calc(period, countries, resources, region_dict, d, mem) ==
    gprsOfTrade(preprocess_trade_data(period, resources, d), period, countries,
                resources, regions(region_dict, d), mem)

\* the database gprs_calc leaves: regions() has run unless preprocess_trade_data raised
gprs_calc_db(period, resources, region_dict, d) ==
    IF preprocess_trade_data(period, resources, d).exc # "none" THEN d
    ELSE regions(region_dict, d)

(***************************************************************************)
(* The functions of the risk computation, called on their own.             *)
(***************************************************************************)
\* a call and its outcome
Called(op, args, out) == [op |-> op, args |-> args, out |-> out]

CallGeoPolRisk ==
    /\ last.op = "none"
    /\ \E numerator, denominator, price, hhi \in RiskArguments :
          last' = Called("GeoPolRisk", <<numerator, denominator, price, hhi>>,
                         GeoPolRisk(numerator, denominator, price, hhi))
    /\ UNCHANGED <<db, cache, ncalls>>

\* the cells given to the coercion of a trade field
Cells ==
    { Num(<<2, 1>>), IntNum(1), None, Text("NA"), Text(" NA "), Text(" "),
      Text(""), Text("2"), Text("abc") }

CallReplaceFunc ==
    /\ last.op = "none"
    /\ \E x \in Cells :
          last' = Called("replace_func", <<x>>,
                         [returned |-> replace_func(x),
                          asfloat |-> AsFloat(replace_func(x))])
    /\ UNCHANGED <<db, cache, ncalls>>

\* the identifiers given to the resolvers
CountryIdentifiers ==
    { PyStr("A"), PyInt(2), PyStr("3"), PyStr("EU"), PyStr("R"), PyStr("Z"),
      PyInt(9), PyNone, PyTuple("A,B") }
ResourceIdentifiers ==
    { PyStr("Cobalt"), PyInt(2605), PyStr("7108"), PyStr("Helium"),
      PyStr("Not Available"), PyStr("Unobtainium"), PyInt(9999), PyStr("9999"),
      PyNone }

CallCvtcountry ==
    /\ last.op = "none"
    /\ \E country \in CountryIdentifiers, type \in {"ISO", "Name"} :
          last' = Called("cvtcountry", <<country, type>>, cvtcountry(db, country, type))
    /\ UNCHANGED <<db, cache, ncalls>>

CallCvtresource ==
    /\ last.op = "none"
    /\ \E resource \in ResourceIdentifiers, type \in {"HS", "Name"} :
          last' = Called("cvtresource", <<resource, type>>, cvtresource(db, resource, type))
    /\ UNCHANGED <<db, cache, ncalls>>

\* the arguments of the calls of create_id: codes of four and of six digits,
\* ISO codes of one and of three digits, as ints or as their texts
IdTriples ==
    { PyInt(2605), PyInt(260512), PyStr("2605") }
        \X { PyInt(124), PyInt(4), PyInt(1), PyStr("4") }
        \X { PyInt(2020), PyStr("2020") }

\* two calls of create_id, on one triple and on another
CallCreateId ==
    /\ last.op = "none"
    /\ \E one, other \in IdTriples :
          last' = Called("create_id", <<one, other>>,
                         << create_id(one[1], one[2], one[3]),
                            create_id(other[1], other[2], other[3]) >>)
    /\ UNCHANGED <<db, cache, ncalls>>

InitRisk ==
    /\ db \in { InitDb(CobaltTable), regions(<< Item("R", <<PyStr("A"), PyStr("B")>>) >>, InitDb(CobaltTable)) }
    /\ cache = << >>
    /\ ncalls = << >>
    /\ last = NoCall

NextRisk ==
    CallGeoPolRisk \/ CallReplaceFunc \/ CallCvtcountry \/ CallCvtresource \/ CallCreateId

SpecRisk == InitRisk /\ [][NextRisk]_vars

(***************************************************************************)
(* What the claims say of GeoPolRisk.                                      *)
(***************************************************************************)
ZeroTriple == last.out.Score = Zero /\ last.out.CF = Zero /\ last.out.WTA = Zero

\* x = y / z and x = y * z on fractions, by cross multiplication
IsQuotient(x, y, z) == x[1] * y[2] * z[1] = x[2] * y[1] * z[2]
IsProduct(x, y, z) == x[1] * y[2] * z[2] = x[2] * y[1] * z[1]

\* C11: GeoPolRisk(numerator, denominator, price, hhi) returns (0, 0, 0) for
\* every denominator <= 0, whatever numerator, price and hhi are.
C11_ZeroForInvalidDenominator ==
    (last.op = "GeoPolRisk" /\ IsNum(last.args[2])
        /\ last.args[2].f[1] <= 0) =>
        (last.out.kind = "return" /\ ZeroTriple)

\* a negative denominator with a positive numerator, price and hhi
C11_Witness ==
    /\ last.op = "GeoPolRisk"
    /\ last.args = << Num(<<1, 1>>), Num(<<0 - 1, 1>>), Num(<<2, 1>>), Num(Half) >>
    /\ last.out.exc = "none" /\ ZeroTriple

\* C12: for every denominator > 0 (numerator and price numbers, hhi a number
\* or null), GeoPolRisk returns (Score, CF, WTA) with WTA = numerator /
\* denominator, Score = hhi * WTA with hhi taken as 0 when it is null, and
\* CF = Score * price when price > 0 and CF = 0 otherwise.
C12_ScoreCFWTA ==
    (last.op = "GeoPolRisk" /\ IsNum(last.args[2]) /\ last.args[2].f[1] > 0
        /\ IsNum(last.args[1]) /\ IsNum(last.args[3])
        /\ (IsNum(last.args[4]) \/ last.args[4] = None)) =>
        /\ last.out.kind = "return"
        /\ IsQuotient(last.out.WTA, last.args[1].f, last.args[2].f)
        /\ IsProduct(last.out.Score, last.args[4].f, last.out.WTA)
        /\ IF last.args[3].f[1] > 0
           THEN IsProduct(last.out.CF, last.out.Score, last.args[3].f)
           ELSE last.out.CF = Zero

\* numerator 1, denominator 2, price 2, hhi 1/2: Score 1/4, CF 1/2, WTA 1/2
C12_Witness ==
    /\ last.op = "GeoPolRisk"
    /\ last.args = << Num(<<1, 1>>), Num(<<2, 1>>), Num(<<2, 1>>), Num(Half) >>
    /\ last.out.Score = <<1, 4>> /\ last.out.CF = Half /\ last.out.WTA = Half

(***************************************************************************)
(* The trade aggregations, called on their own.                            *)
(***************************************************************************)
\* the arguments of the calls of aggregateTrade
TradeYears == { PyInt(2020), PyInt(2021) }
Commodities == { PyInt(2605), PyStr("7108") }
CountryLists ==
    { << >>, << PyStr("A") >>, << PyStr("B") >>,
      << PyStr("A"), PyStr("B") >>, << PyInt(2), PyStr("A") >>,
      << PyStr("A"), PyStr("C") >>, << PyStr("A"), PyStr("Z") >> }

CallAggregateTrade ==
    /\ last.op = "none"
    /\ \E filtered_data \in TradeTables, year \in TradeYears,
          countries \in CountryLists, commoditycode \in Commodities :
          last' = Called("aggregateTrade",
                         <<filtered_data, year, countries, commoditycode>>,
                         aggregateTrade(filtered_data, year, countries, commoditycode, db))
    /\ UNCHANGED <<db, cache, ncalls>>

\* the arguments of the calls of importrisk
Importers == { PyStr("A"), PyInt(1), PyStr("Z") }
ExporterLists == { << PyStr("B") >>, << PyStr("B"), PyStr("C") >>, << PyStr("Q"), PyStr("C") >> }

CallImportrisk ==
    /\ last.op = "none"
    /\ \E trade_data \in TradeTables, importing_country \in Importers,
          exporting_country \in ExporterLists :
          last' = Called("importrisk",
                         <<trade_data, PyInt(2020), importing_country, exporting_country>>,
                         importrisk(PyInt(2605), PyInt(2020), importing_country,
                                    exporting_country, trade_data, Zero, db))
    /\ UNCHANGED <<db, cache, ncalls>>

InitTrade == InitRisk

NextTrade == CallAggregateTrade \/ CallImportrisk

SpecTrade == InitTrade /\ [][NextTrade]_vars

(***************************************************************************)
(* What the claims say of the trade aggregations, stated over the table.   *)
(***************************************************************************)
\* a missing cell: "NA" (blanks around it or not), null, or blank
IsMissing(x) == x = None \/ (x.k = "str" /\ x.s \in {"NA", " NA ", " ", ""})
\* a cell that holds a number: a float, an int or the text of a number
IsNumber(x) == IsNum(x) \/ (x.k = "str" /\ IsFloatText(x.s))
NumberOf(x) == IF IsNum(x) THEN x.f ELSE FloatOfText(x.s)

\* the claimed reading of a cell: a missing WGI is 0.5, a missing qty or value 0
ClaimedWGI(x) == IF IsMissing(x) THEN Half ELSE NumberOf(x)
ClaimedAmount(x) == IF IsMissing(x) THEN Zero ELSE NumberOf(x)

\* the rows of the countries of the last call of aggregateTrade, member by
\* member from the i-th on; every country resolves
RECURSIVE RegionRows(_)
RegionRows(i) ==
    IF i > Len(last.args[3]) THEN << >>
    ELSE SelectSeq(last.args[1],
                   LAMBDA row : MemberRow(row, last.args[2], last.args[4],
                                          cvtcountry(db, last.args[3][i], "ISO").v))
            \o RegionRows(i + 1)

MembersResolve ==
    \A i \in DOMAIN last.args[3] : cvtcountry(db, last.args[3][i], "ISO").exc = "none"

ClaimedNumerator(rows) ==
    fsum([i \in DOMAIN rows |->
            FracMul(ClaimedAmount(rows[i].qty), ClaimedWGI(rows[i].partnerWGI))])
ClaimedTotalTrade(rows) == fsum([i \in DOMAIN rows |-> ClaimedAmount(rows[i].qty)])
ClaimedValue(rows) == fsum([i \in DOMAIN rows |-> ClaimedAmount(rows[i].cifvalue)])

\* every cell of the rows is a float or a missing value
CellsFloatOrMissing(rows) ==
    \A i \in DOMAIN rows :
        \A field \in {"qty", "cifvalue", "partnerWGI"} :
            IsMissing(rows[i][field]) \/ rows[i][field].k = "float"

\* C13, as claimed: in a trade aggregation a partnerWGI that is "NA", null or
\* blank is weighted as 0.5 in the Numerator, and a missing qty or cifvalue is
\* counted as 0.
C13_Claim ==
    (last.op = "aggregateTrade" /\ MembersResolve
        /\ CellsFloatOrMissing(RegionRows(1))) =>
        /\ last.out.kind = "return"
        /\ last.out.numerator = ClaimedNumerator(RegionRows(1))
        /\ last.out.qty = ClaimedTotalTrade(RegionRows(1))

\* C14, as claimed: the coercion of a trade field never raises: for every
\* field value ("NA", None, blank, an integer, a non-numeric string) it yields
\* a number, and a value that cannot be converted yields 0.
C14_Claim ==
    last.op = "replace_func" =>
        /\ last.out.asfloat.exc = "none"
        /\ IsNum(last.out.asfloat.v)
        /\ ~IsNumber(last.args[1]) => last.out.asfloat.v.f = Zero

\* the aggregation of the i-th country of the last call alone
SingleCountry(i) ==
    aggregateTrade(last.args[1], last.args[2], << last.args[3][i] >>, last.args[4], db)

\* every cell of the rows is one the coercion of aggregateTrade accepts: a
\* float, the text of a number, "NA", null or a single blank
CellsCoercible(rows) ==
    \A i \in DOMAIN rows :
        \A field \in {"qty", "cifvalue", "partnerWGI"} :
            \/ rows[i][field].k = "float"
            \/ rows[i][field].k = "str" /\ IsFloatText(rows[i][field].s)
            \/ rows[i][field] \in { None, Text("NA"), Text(" NA "), Text(" ") }

\* C15: for every region (list of member countries that resolve, cells that
\* coerce), year and commodity, aggregateTrade returns a Numerator and a
\* TotalTrade equal to the sums of the members' single-country Numerator and
\* TotalTrade, and a Price equal to (sum of cifvalue over all members) / (sum
\* of qty over all members), 0 when that qty sum is 0; a member with no
\* matching trade rows contributes 0 and does not abort the aggregation.
C15_RegionIsSumOfMembers ==
    (last.op = "aggregateTrade" /\ MembersResolve
        /\ CellsCoercible(RegionRows(1))) =>
        /\ last.out.kind = "return"
        /\ last.out.numerator =
                fsum([i \in DOMAIN last.args[3] |-> SingleCountry(i).numerator])
        /\ last.out.qty = fsum([i \in DOMAIN last.args[3] |-> SingleCountry(i).qty])
        /\ IF ClaimedTotalTrade(RegionRows(1)) = Zero
           THEN last.out.price = Zero
           ELSE IsQuotient(last.out.price, ClaimedValue(RegionRows(1)),
                           ClaimedTotalTrade(RegionRows(1)))

\* a region of two members that both have rows, of different prices: the
\* TotalTrade is the sum of the two, the Price is that of the whole region
C15_Witness ==
    /\ last.op = "aggregateTrade" /\ last.out.kind = "return"
    /\ Len(last.args[3]) = 2
    /\ SingleCountry(1).qty # Zero /\ SingleCountry(2).qty # Zero
    /\ SingleCountry(1).price # SingleCountry(2).price
    /\ last.out.qty = FracAdd(SingleCountry(1).qty, SingleCountry(2).qty)
    /\ last.out.price # Zero

(***************************************************************************)
(* What the claims say of the identifier resolvers.                        *)
(***************************************************************************)
\* the identifier of the last call names a region of the registry that is no
\* country of the Country_ISO table
IsRegionName ==
    /\ last.args[1].k = "str"
    /\ last.args[1].s \in DOMAIN db.regionslist
    /\ last.args[1].s \notin CountryNames

\* C17, as claimed: cvtcountry returns a region name unchanged, for both
\* target forms, whenever the name is present in the region registry
\* db.regionslist, the preset region EU with no user-defined region included.
C17_Claim ==
    (last.op = "cvtcountry" /\ IsRegionName) =>
        (last.out.exc = "none" /\ last.out.v = last.args[1])

\* the identifier is the code or the name of a country, as an int or a string
KnownCountry(x) ==
    \/ x.k = "str" /\ x.s \in CountryNames
    \/ x.k = "int" /\ x.n \in CountryISOs
    \/ x.k = "str" /\ IsNumeral(x.s) /\ int(x).v.n \in CountryISOs
\* the identifier is the name or the HS code of a resource, as an int or a string
KnownResource(x) ==
    \/ x.k = "str" /\ x.s \in MapIDs
    \/ x.k \in {"str", "int"} /\ str(x) \in MapHSCodes

\* C18, as claimed: cvtcountry and cvtresource fail with an error, for both
\* target forms, whenever the identifier matches neither a known code nor a
\* known name; they never return a value for an unknown identifier.
C18_Claim ==
    /\ (last.op = "cvtcountry" /\ ~KnownCountry(last.args[1])
            /\ ~(last.args[1].k = "str" /\ last.args[1].s \in DOMAIN db.regionslist)) =>
            last.out.exc # "none"
    /\ (last.op = "cvtresource" /\ ~KnownResource(last.args[1])) =>
            last.out.exc # "none"

(***************************************************************************)
(* The batch: gprs_calc on a database with a trade table.                  *)
(***************************************************************************)
\* the rows of db.baci_trade in the runs of the batch
BatchCells == PlainCells \cup { << Num(<<2, 1>>), Num(<<4, 1>>), Text("NA") >> }
BatchRows(typing) ==
    { TradeRow(typing, pair, cells) : pair \in TradePairs, cells \in BatchCells }
BatchTables == UNION { TradeTablesOf(BatchRows(typing)) : typing \in Typings }

\* Database.initialize with baci_trade loaded (database.py:270-272)
BatchDb(baci_trade) ==
    [production |-> Production(CobaltTable), regional |-> FALSE,
     regionslist |-> DefaultRegions, baci_trade |-> baci_trade]

\* the arguments of the calls of gprs_calc
Periods == { << PyStr("2020") >>, << PyInt(2020) >> }
BatchCountries ==
    { << PyInt(1) >>, << PyInt(1), PyInt(2) >>, << PyStr("A") >>,
      << PyStr("Z"), PyInt(1) >> }
BatchResources ==
    { << PyInt(2605) >>, << PyStr("Cobalt") >>,
      << PyStr("Unobtainium"), PyInt(2605) >>,
      << PyInt(2605), PyStr("Unobtainium") >>,
      << PyInt(9999), PyInt(2605) >> }

\* the call gprs_calc(period, countries, resources, region_dict, db), ran
\* being what it gave
GprsCalcStep(period, countries, resources, region_dict, ran) ==
    /\ last' = Called("gprs_calc", <<period, countries, resources, region_dict>>,
                      [kind |-> ran.kind, exc |-> ran.exc, results |-> ran.results,
                       visited |-> ran.visited])
    /\ db' = gprs_calc_db(period, resources, region_dict, db)
    /\ cache' = ran.cache
    /\ ncalls' = ran.ncalls

CallGprsCalc ==
    /\ last.op = "none"
    /\ \E period \in Periods, countries \in BatchCountries,
          resources \in BatchResources, region_dict \in RegionDicts :
          GprsCalcStep(period, countries, resources, region_dict,
                       gprs_calc(period, countries, resources, region_dict, db,
                                 [cache |-> cache, ncalls |-> ncalls]))

InitBatch ==
    /\ db \in { BatchDb(baci_trade) : baci_trade \in BatchTables }
    /\ cache = << >>
    /\ ncalls = << >>
    /\ last = NoCall

NextBatch == CallGprsCalc

SpecBatch == InitBatch /\ [][NextBatch]_vars

(***************************************************************************)
(* Two calls of gprs_calc on one database: the cache of cached_HHI and the *)
(* region registry of the first call are there when the second one runs.   *)
(***************************************************************************)
\* the rows of db.baci_trade in the sessions: a period column of strings and
\* code columns of ints; R is a partner with the name of a user region
SessionPairs == { FirstPair, <<1, 3, "C">>, <<1, 7, "R">> }
SessionTables ==
    TradeTablesOf({ TradeRow("mixed", pair, cells) : pair \in SessionPairs, cells \in PlainCells })

\* the arguments of the calls
SessionCountries == { << PyInt(1) >>, << PyStr("R"), PyInt(1) >>, << PyStr("EU"), PyInt(1) >> }
SessionRequests ==
    { << << PyStr("2020") >>, countries, << PyInt(2605) >>, region_dict >> :
        countries \in SessionCountries, region_dict \in RegionDicts }

\* gprs_calc with the request given, on the database and the cache as they are
RunOf(request) ==
    gprs_calc(request[1], request[2], request[3], request[4], db,
              [cache |-> cache, ncalls |-> ncalls])
Outcome(ran) ==
    [kind |-> ran.kind, exc |-> ran.exc, results |-> ran.results, visited |-> ran.visited]
SessionStep(op, request, out, ran) ==
    /\ last' = Called(op, request, out)
    /\ db' = gprs_calc_db(request[1], request[3], request[4], db)
    /\ cache' = ran.cache
    /\ ncalls' = ran.ncalls

\* the first call of the session
FirstRun ==
    /\ last.op = "none"
    /\ \E request \in SessionRequests :
          SessionStep("gprs_calc", request, Outcome(RunOf(request)), RunOf(request))

\* the same request once more
SameRunAgain ==
    /\ last.op = "gprs_calc"
    /\ SessionStep("gprs_calc again", last.args,
                   [first |-> last.out, second |-> Outcome(RunOf(last.args))],
                   RunOf(last.args))

\* another request, with an empty region dictionary
LaterRun ==
    /\ last.op = "gprs_calc"
    /\ \E countries \in SessionCountries :
          SessionStep("gprs_calc later", << last.args[1], countries, last.args[3], << >> >>,
                      Outcome(RunOf(<< last.args[1], countries, last.args[3], << >> >>)),
                      RunOf(<< last.args[1], countries, last.args[3], << >> >>))

InitSession ==
    /\ db \in { BatchDb(baci_trade) : baci_trade \in SessionTables }
    /\ cache = << >>
    /\ ncalls = << >>
    /\ last = NoCall

NextSession == FirstRun \/ SameRunAgain \/ LaterRun

SpecSession == InitSession /\ [][NextSession]_vars

(***************************************************************************)
(* What the claims say of the batch.                                       *)
(***************************************************************************)
\* the combinations of the last call, and the rows reported for the k-th
RequestedCombos == Product(last.args[1], last.args[2], last.args[3])
IsRowOf(row, k) ==
    /\ row.Year = RequestedCombos[k][1]
    /\ row.Resource = RequestedCombos[k][3]
    /\ row.Importer = cvtcountry(db, RequestedCombos[k][2], "Name").v
ExporterRowsOf(k) ==
    { j \in DOMAIN last.out.results :
        IsRowOf(last.out.results[j], k) /\ last.out.results[j].Exporter # PyStr("Global") }
GlobalRowsOf(k) ==
    { j \in DOMAIN last.out.results :
        IsRowOf(last.out.results[j], k) /\ last.out.results[j].Exporter = PyStr("Global") }
ImportRisk == [j \in DOMAIN last.out.results |-> last.out.results[j].IR]

\* the sum of the fractions f[x] for x in S
RECURSIVE FracSetSum(_, _)
FracSetSum(f, S) ==
    IF S = {} THEN Zero
    ELSE LET x == CHOOSE x \in S : TRUE IN FracAdd(f[x], FracSetSum(f, S \ {x}))

\* C16, as claimed: for every (year, importer, resource) combination for
\* which gprs_calc emits per-exporter rows, it emits exactly one row labelled
\* "Global" for that combination, computed from the sum of the exporters'
\* Numerators (its Import Risk is the sum of theirs).
C16_Claim ==
    last.op = "gprs_calc" =>
        \A k \in DOMAIN RequestedCombos :
            ExporterRowsOf(k) # {} =>
                /\ Cardinality(GlobalRowsOf(k)) = 1
                /\ \A g \in GlobalRowsOf(k) :
                      ImportRisk[g] = FracSetSum(ImportRisk, ExporterRowsOf(k))

\* C16, as the code has it: for every combination for which gprs_calc emits
\* per-exporter rows, it emits one row labelled "Global", whose Import Risk is
\* the sum of the exporters', when the sum of the exporters' Numerators is
\* positive, and no "Global" row when that sum is zero.
C16_GlobalRowIfPositiveSum ==
    last.op = "gprs_calc" =>
        \A k \in DOMAIN RequestedCombos :
            ExporterRowsOf(k) # {} =>
                /\ Cardinality(GlobalRowsOf(k))
                      = IF FracLt(Zero, FracSetSum(ImportRisk, ExporterRowsOf(k)))
                        THEN 1 ELSE 0
                /\ \A g \in GlobalRowsOf(k) :
                      ImportRisk[g] = FracSetSum(ImportRisk, ExporterRowsOf(k))

\* a batch reported two exporters of one combination, one of them with a
\* positive Import Risk, and the "Global" row of the combination
C16_Witness ==
    /\ last.op = "gprs_calc"
    /\ \E k \in DOMAIN RequestedCombos :
          /\ Cardinality(ExporterRowsOf(k)) >= 2
          /\ Cardinality(GlobalRowsOf(k)) = 1
          /\ \E j \in ExporterRowsOf(k) : FracLt(Zero, ImportRisk[j])

\* C19, as claimed: a batch request whose region dictionary contains a region
\* with an unresolvable member country is rejected before the cross-product
\* loop starts: gprs_calc processes no combination and emits no result.
C19_Claim ==
    (last.op = "gprs_calc" /\ RegionsRejected(last.args[4], db)) =>
        (last.out.visited = << >> /\ last.out.results = << >>)

\* the request of the k-th combination alone, run on the database and cache
\* as they were before the last call
AloneRuns(k, before) ==
    gprs_calc(<< RequestedCombos[k][1] >>, << RequestedCombos[k][2] >>,
              << RequestedCombos[k][3] >>, last.args[4], before, [cache |-> << >>, ncalls |-> << >>])

\* C20, as claimed: gprs_calc runs to completion for every request: an
\* identifier of the request that cannot be resolved affects only the
\* combinations that contain it, every other combination of the cross-product
\* is still processed and reported.
C20_Claim ==
    (last.op = "gprs_calc" /\ db.baci_trade # << >>) =>
        /\ last.out.kind = "return"
        /\ Len(last.out.visited) = Len(RequestedCombos)
        /\ \A k \in DOMAIN RequestedCombos :
              LET alone == AloneRuns(k, [db EXCEPT !.regional = FALSE,
                                                   !.regionslist = DefaultRegions])
              IN  alone.kind = "return" =>
                    \A r \in DOMAIN alone.results :
                        \E j \in DOMAIN last.out.results :
                            last.out.results[j] = alone.results[r]

\* the trade slice of the k-th combination: the rows of db.baci_trade of its
\* year, importer and resource, as main.py:47-51 selects them
TradeSlice(k) ==
    SelectSeq(db.baci_trade, LAMBDA row :
        /\ row.period = RequestedCombos[k][1]
        /\ row.period = PyStr(str(RequestedCombos[k][1]))
        /\ row.reporterCode = RequestedCombos[k][2]
        /\ row.cmdCode = PyStr(str(RequestedCombos[k][3])))
RecordsOf(k) == { j \in DOMAIN last.out.results : IsRowOf(last.out.results[j], k) }

\* C21, as claimed: every requested (year, importer, resource) combination
\* whose trade slice is non-empty yields at least one result record of
\* gprs_calc; a combination is left without a record only when its trade
\* slice is empty.
C21_Claim ==
    last.op = "gprs_calc" =>
        \A k \in DOMAIN RequestedCombos :
            TradeSlice(k) # << >> => RecordsOf(k) # {}

\* C22, as claimed: every result record appended by gprs_calc carries an id
\* equal to the concatenation of the combination's commodity code, country ISO
\* code and year.
C22_Claim ==
    last.op = "gprs_calc" =>
        \A k \in DOMAIN RequestedCombos : \A j \in RecordsOf(k) :
            /\ "id" \in DOMAIN last.out.results[j]
            /\ last.out.results[j].id =
                  create_id(cvtresource(db, RequestedCombos[k][3], "HS").v,
                            cvtcountry(db, RequestedCombos[k][2], "ISO").v,
                            RequestedCombos[k][1])

\* the rows of db.baci_trade of the year and the commodity of the k-th
\* combination, whatever the reporter
GlobalSlice(k) ==
    SelectSeq(db.baci_trade, LAMBDA row :
        /\ row.period = RequestedCombos[k][1]
        /\ row.cmdCode = PyStr(str(RequestedCombos[k][3])))
\* sum of cifvalue / sum of qty of the rows, 0 if the qty sum is 0
ClaimedPrice(rows) ==
    IF ClaimedTotalTrade(rows) = Zero THEN Zero
    ELSE FracDiv(ClaimedValue(rows), ClaimedTotalTrade(rows))
\* the HHI that cached_HHI holds for the k-th combination
HHIOfCombo(k) ==
    cache[CacheKey(RequestedCombos[k][3], RequestedCombos[k][1], RequestedCombos[k][2])].hhi

\* C25: within one (year, importer, resource) combination, every per-exporter
\* row and the Global row emitted by gprs_calc carry the same Country Price
\* (the importer's sum of cifvalue / sum of qty over all its partners, 0 if
\* that qty sum is 0), the same Global Price (sum of cifvalue / sum of qty
\* over all reporters of the year and commodity, 0 if that qty sum is 0) and
\* the same HHI; none of these is a per-exporter value.
C25_SharedPricesAndHHI ==
    last.op = "gprs_calc" =>
        \A k \in DOMAIN RequestedCombos : \A j \in RecordsOf(k) :
            /\ last.out.results[j].CountryPrice = ClaimedPrice(TradeSlice(k))
            /\ last.out.results[j].GlobalPrice = ClaimedPrice(GlobalSlice(k))
            /\ last.out.results[j].HHI = HHIOfCombo(k)

\* a combination reported with two exporters and the Global row, the rows of
\* the two exporters having prices of their own that differ from the
\* importer's
C25_Witness ==
    /\ last.op = "gprs_calc"
    /\ \E k \in DOMAIN RequestedCombos :
          /\ Cardinality(ExporterRowsOf(k)) >= 2
          /\ GlobalRowsOf(k) # {}
          /\ \A i \in DOMAIN TradeSlice(k) :
                ClaimedPrice(<< TradeSlice(k)[i] >>) # ClaimedPrice(TradeSlice(k))
          /\ FracLt(Zero, HHIOfCombo(k))

Score == [j \in DOMAIN last.out.results |-> last.out.results[j].Score]

\* C26: within one (year, importer, resource) combination for which a Global
\* row is emitted, the Global row's Import Risk equals the sum of the Import
\* Risk values of the combination's per-exporter rows, and its Score equals
\* the sum of their Scores.
C26_GlobalRowIsSumOfExporterRows ==
    last.op = "gprs_calc" =>
        \A k \in DOMAIN RequestedCombos : \A g \in GlobalRowsOf(k) :
            /\ ImportRisk[g] = FracSetSum(ImportRisk, ExporterRowsOf(k))
            /\ Score[g] = FracSetSum(Score, ExporterRowsOf(k))

\* a Global row over two exporters that both have a positive Score
C26_Witness ==
    /\ last.op = "gprs_calc"
    /\ \E k \in DOMAIN RequestedCombos :
          /\ GlobalRowsOf(k) # {}
          /\ Cardinality(ExporterRowsOf(k)) >= 2
          /\ \A j \in ExporterRowsOf(k) : FracLt(Zero, Score[j]) /\ FracLt(Zero, ImportRisk[j])

\* the database as it was before the call of gprs_calc
DbBefore == [db EXCEPT !.regional = FALSE, !.regionslist = DefaultRegions]
NoCache == [cache |-> << >>, ncalls |-> << >>]

\* the request of the last call with every country and every resource given
\* by its name; all of them resolve
IdentifiersResolve ==
    /\ \A i \in DOMAIN last.args[2] : cvtcountry(DbBefore, last.args[2][i], "Name").exc = "none"
    /\ \A i \in DOMAIN last.args[3] :
          /\ cvtresource(DbBefore, last.args[3][i], "Name").exc = "none"
          /\ cvtresource(DbBefore, last.args[3][i], "Name").v # PyNone
CountriesByName ==
    [i \in DOMAIN last.args[2] |-> cvtcountry(DbBefore, last.args[2][i], "Name").v]
ResourcesByName ==
    [i \in DOMAIN last.args[3] |-> cvtresource(DbBefore, last.args[3][i], "Name").v]
\* the records without the field that echoes the resource as it was given
Values(results) == [j \in DOMAIN results |-> [results[j] EXCEPT !.Resource = PyNone]]

\* C24, as claimed: gprs_calc produces the same result records for a
\* combination whether its resource is given as an HS code or as a resource
\* name, and whether its country is given as an ISO code or as a country name.
C24_Claim ==
    (last.op = "gprs_calc" /\ IdentifiersResolve) =>
        Values(last.out.results)
            = Values(gprs_calc(last.args[1], CountriesByName, ResourcesByName,
                               last.args[4], DbBefore, NoCache).results)

(***************************************************************************)
(* What the claims say of create_id.                                       *)
(***************************************************************************)
\* the commodity code, ISO code and year of a triple, as texts
TextsOf(triple) == << str(triple[1]), str(triple[2]), str(triple[3]) >>

\* C30, as claimed: create_id maps distinct (commodity code, country ISO
\* code, year) triples to distinct ids.
C30_Claim ==
    (last.op = "create_id" /\ TextsOf(last.args[1]) # TextsOf(last.args[2])) =>
        last.out[1] # last.out[2]

(***************************************************************************)
(* What the claims say of regions().                                       *)
(***************************************************************************)
\* C28, as claimed: when regions() rejects a region dictionary (a key that is
\* not a string, a value that is not a list, or a member missing from the
\* country map), it leaves the registry db.regionslist and the flag
\* db.regional exactly as they were before the call, for every position of
\* the invalid entry in the dictionary.
C28_Claim ==
    [][(last'.op = "regions" /\ RegionsRejected(last'.dict, db)) =>
          (db'.regionslist = db.regionslist /\ db'.regional = db.regional)]_vars

(***************************************************************************)
(* What the claims say of importrisk.                                      *)
(***************************************************************************)
\* the list without its i-th element
Without(list, i) == SubSeq(list, 1, i - 1) \o SubSeq(list, i + 1, Len(list))

\* the rows of the importer and of the i-th exporter of the last call of
\* importrisk; both names resolve
RowsOfExporter(i) ==
    SelectSeq(last.args[1], LAMBDA row :
        ExporterRow(row, last.args[2], cvtcountry(db, last.args[3], "ISO").v,
                    cvtcountry(db, last.args[4][i], "ISO").v, PyInt(2605)))

\* handling the i-th exporter fails: its name does not resolve, or a field
\* of its rows cannot be coerced
ExporterFails(i) ==
    \/ cvtcountry(db, last.args[4][i], "ISO").exc # "none"
    \/ /\ cvtcountry(db, last.args[3], "ISO").exc = "none"
       /\ \/ ImportriskColumn(RowsOfExporter(i), "qty").exc # "none"
          \/ WgiColumn(RowsOfExporter(i), "partnerWGI").exc # "none"

\* C29: in importrisk a failure while handling one exporter removes only that
\* exporter's row: the rows returned for the other exporters are the same as
\* if the failing exporter had not been in the list; and importrisk returns
\* an empty list when the importer cannot be resolved.
C29_FailureRemovesOneExporter ==
    last.op = "importrisk" =>
        /\ \A i \in DOMAIN last.args[4] :
              ExporterFails(i) =>
                  last.out = importrisk(PyInt(2605), last.args[2], last.args[3],
                                        Without(last.args[4], i), last.args[1], Zero, db)
        /\ (cvtcountry(db, last.args[3], "ISO").exc # "none") => last.out = << >>

\* one exporter of the list failed on a field of its rows and another one
\* has its row in the result
C29_Witness ==
    /\ last.op = "importrisk"
    /\ cvtcountry(db, last.args[3], "ISO").exc = "none"
    /\ \E i \in DOMAIN last.args[4] :
          /\ cvtcountry(db, last.args[4][i], "ISO").exc = "none"
          /\ ExporterFails(i)
    /\ Len(last.out) >= 1

(***************************************************************************)
(* What the claims say of two calls of gprs_calc on one database.          *)
(***************************************************************************)
\* C23: running gprs_calc twice in a row with the same request on the same
\* db produces identical result sets: the cache and the region registry left
\* by the first run do not change any value of the second run.
C23_RerunGivesSameResults ==
    last.op = "gprs_calc again" => last.out.second = last.out.first

\* the second run had records to give and read the HHI from the cache
C23_Witness ==
    /\ last.op = "gprs_calc again"
    /\ Len(last.out.second.results) >= 2
    /\ \E key \in DOMAIN ncalls : ncalls[key] = 1
    /\ db.regional

\* C27: the result of gprs_calc for a request depends only on that request
\* and the reference tables, not on earlier requests served by the same db:
\* a run with an empty region dictionary gives the same records whether or
\* not an earlier run on the same db registered user regions.
C27_EarlierRunsDoNotMatter ==
    last.op = "gprs_calc later" =>
        Outcome(gprs_calc(last.args[1], last.args[2], last.args[3], last.args[4],
                          DbBefore, NoCache)) = last.out

\* the later run gave records on a db where an earlier run had registered a
\* user region and set db.regional
C27_Witness ==
    /\ last.op = "gprs_calc later"
    /\ db.regional
    /\ "R" \in DOMAIN db.regionslist
    /\ Len(last.out.results) >= 2
    /\ \E i \in DOMAIN db.baci_trade : db.baci_trade[i].partnerDesc = PyStr("R")

====
